---- MODULE Spec2Model ----
(***************************************************************************)
(* Speech-to-move normalization pipeline of blindfold_chess                *)
(* (src/chess_normalizer.py).  Python strings are TLA+ strings; positions  *)
(* and cursors are Python's 0-based indices.  The text alphabet is the     *)
(* code points U+0000..U+00FF: the replacements of the dashes U+2013,      *)
(* U+2014, U+2212 (line 306) and of the apostrophe U+2019 (line 531) leave *)
(* every such text unchanged and have no counterpart here.                 *)
(***************************************************************************)
EXTENDS Integers, Sequences, FiniteSets, TLC

(* ---------------------------------------------------------------------- *)
(* Python string primitives                                                *)
(* ---------------------------------------------------------------------- *)

\* s[k]
Ch(s, k) == SubSeq(s, k + 1, k + 1)

\* s[a:b]
Slice(s, a, b) == SubSeq(s, a + 1, b)

\* the characters of a character-class literal
CharSet(s) == {SubSeq(s, k, k) : k \in 1..Len(s)}

\* the range a-z of the character classes
AZ == "abcdefghijklmnopqrstuvwxyz"
\* the characters str.lower() changes, and under each its image in LOWER
UPPER == "ABCDEFGHIJKLMNOPQRSTUVWXYZ" \o "ÀÁÂÃÄÅÆÇÈÉÊËÌÍÎÏÐÑÒÓÔÕÖØÙÚÛÜÝÞ"
LOWER == AZ \o "àáâãäåæçèéêëìíîïðñòóôõöøùúûüýþ"
DIGITS == "0123456789"
\* the characters with islower() / isupper()
LowerChars == CharSet(LOWER) \cup CharSet("ªµºßÿ")
UpperChars == CharSet(UPPER)
\* \s of the re module, str.strip() and str.split(): the ASCII whitespace,
\* the separators U+001C..U+001F, U+0085 and U+00A0
SpaceChars == {" ", "\t", "\n", "\r", "\f"} \cup CharSet(" ")
\* \w of the re module: the letters, the digits, the underscore and the
\* numeric characters of U+00B2..U+00BE
WordChars == LowerChars \cup UpperChars \cup CharSet(DIGITS) \cup {"_"} \cup CharSet("²³¹¼½¾")

IndexIn(ch, s) == CHOOSE k \in 1..Len(s) : SubSeq(s, k, k) = ch

LowerCh(ch) == IF ch \in UpperChars THEN SubSeq(LOWER, IndexIn(ch, UPPER), IndexIn(ch, UPPER)) ELSE ch

\* str.upper() of one character; the images of U+00B5 and U+00FF lie beyond
\* U+00FF and the operator has no value there
UpperCh(ch) ==
    IF ch \in CharSet(LOWER) THEN SubSeq(UPPER, IndexIn(ch, LOWER), IndexIn(ch, LOWER))
    ELSE IF ch = "ß" THEN "SS"
    ELSE IF ch \in CharSet("µÿ") THEN CHOOSE image \in {} : TRUE
    ELSE ch

\* (characterwise functions split the string in halves to keep the recursion shallow)
RECURSIVE str_lower(_)
str_lower(s) ==
    IF Len(s) <= 1 THEN LowerCh(s)
    ELSE str_lower(SubSeq(s, 1, Len(s) \div 2)) \o str_lower(SubSeq(s, Len(s) \div 2 + 1, Len(s)))

RECURSIVE str_upper(_)
str_upper(s) ==
    IF Len(s) <= 1 THEN UpperCh(s)
    ELSE str_upper(SubSeq(s, 1, Len(s) \div 2)) \o str_upper(SubSeq(s, Len(s) \div 2 + 1, Len(s)))

\* ch.isupper() / ch.islower() of a one-character string
isupper(ch) == ch \in UpperChars

islower(ch) == ch \in LowerChars

Min(S) == CHOOSE x \in S : \A y \in S : x <= y

Max(S) == CHOOSE x \in S : \A y \in S : x >= y

\* s.strip(): from the first to the last character that is not whitespace
str_strip(s) ==
    LET solid == {k \in 0..(Len(s) - 1) : Ch(s, k) \notin SpaceChars}
    IN  IF solid = {} THEN "" ELSE Slice(s, Min(solid), Max(solid) + 1)

\* s.replace(old, new) for a one-character old
RECURSIVE str_replace(_, _, _)
str_replace(s, old, new) ==
    IF Len(s) <= 1 THEN (IF s = old THEN new ELSE s)
    ELSE str_replace(SubSeq(s, 1, Len(s) \div 2), old, new)
         \o str_replace(SubSeq(s, Len(s) \div 2 + 1, Len(s)), old, new)

\* s.startswith(p)
startswith(s, p) == Len(s) >= Len(p) /\ Slice(s, 0, Len(p)) = p

\* "".join(seq)
RECURSIVE join(_)
join(seq) == IF Len(seq) = 0 THEN "" ELSE Head(seq) \o join(Tail(seq))

\* needle in haystack, for strings (substring test)
str_contains(haystack, needle) ==
    \E k \in 0..(Len(haystack) - Len(needle)) : Slice(haystack, k, k + Len(needle)) = needle

\* value in list
InList(value, list) == \E k \in 1..Len(list) : list[k] = value

Range(f) == {f[k] : k \in DOMAIN f}

(* ---------------------------------------------------------------------- *)
(* The fragment of Python's re module the program uses: a pattern is a     *)
(* sequence of nodes, matched by backtracking, greedy, first alternative   *)
(* first.                                                                  *)
(* ---------------------------------------------------------------------- *)

Lit(s) == [t |-> "lit", s |-> s]
Set(cs) == [t |-> "set", cs |-> CharSet(cs), neg |-> FALSE]
SpaceSet == [t |-> "set", cs |-> SpaceChars, neg |-> FALSE]
Rep(node, min) == [t |-> "rep", node |-> node, min |-> min]
Opt(p) == [t |-> "opt", p |-> p]
Alt(ps) == [t |-> "alt", ps |-> ps]
WB == [t |-> "wb"]
BOL == [t |-> "bol"]
EOL == [t |-> "eol"]

\* one character against a class, under re.IGNORECASE when ic
InClass(ch, node, ic) ==
    LET hit == IF ic THEN \E x \in node.cs : LowerCh(x) = LowerCh(ch) ELSE ch \in node.cs
    IN  IF node.neg THEN ~hit ELSE hit

\* the number of consecutive characters of the class from pos on
RunLength(node, s, pos, ic) ==
    LET stops == {k \in pos..(Len(s) - 1) : ~InClass(Ch(s, k), node, ic)}
    IN  (IF stops = {} THEN Len(s) ELSE Min(stops)) - pos

\* \b
IsWordBoundary(s, pos) ==
    LET before == pos > 0 /\ Ch(s, pos - 1) \in WordChars
        after == pos < Len(s) /\ Ch(s, pos) \in WordChars
    IN  before # after

\* the end of the match of the node sequence at pos, -1 when there is none
RECURSIVE MatchSeq(_, _, _, _)
RECURSIVE TryRep(_, _, _, _, _, _)
RECURSIVE TryAlt(_, _, _, _, _, _)
MatchSeq(items, s, pos, ic) ==
    IF Len(items) = 0 THEN pos
    ELSE LET n == Head(items)
             rest == Tail(items)
         IN  CASE n.t = "lit" ->
                    IF pos + Len(n.s) <= Len(s)
                       /\ (IF ic THEN str_lower(Slice(s, pos, pos + Len(n.s))) = str_lower(n.s)
                                 ELSE Slice(s, pos, pos + Len(n.s)) = n.s)
                    THEN MatchSeq(rest, s, pos + Len(n.s), ic) ELSE -1
               [] n.t = "set" ->
                    IF pos < Len(s) /\ InClass(Ch(s, pos), n, ic)
                    THEN MatchSeq(rest, s, pos + 1, ic) ELSE -1
               [] n.t = "rep" -> TryRep(n, RunLength(n.node, s, pos, ic), rest, s, pos, ic)
               [] n.t = "opt" ->
                    LET r == MatchSeq(n.p \o rest, s, pos, ic)
                    IN  IF r # -1 THEN r ELSE MatchSeq(rest, s, pos, ic)
               [] n.t = "alt" -> TryAlt(n.ps, 1, rest, s, pos, ic)
               [] n.t = "wb" -> IF IsWordBoundary(s, pos) THEN MatchSeq(rest, s, pos, ic) ELSE -1
               [] n.t = "bol" -> IF pos = 0 THEN MatchSeq(rest, s, pos, ic) ELSE -1
               [] n.t = "eol" ->
                    IF pos = Len(s) \/ (pos = Len(s) - 1 /\ Ch(s, pos) = "\n")
                    THEN MatchSeq(rest, s, pos, ic) ELSE -1

\* greedy repetition: the longest run first, then shorter ones
TryRep(n, count, rest, s, pos, ic) ==
    IF count < n.min THEN -1
    ELSE LET r == MatchSeq(rest, s, pos + count, ic)
         IN  IF r # -1 THEN r ELSE TryRep(n, count - 1, rest, s, pos, ic)

\* alternation: the first alternative that lets the rest match
TryAlt(ps, k, rest, s, pos, ic) ==
    IF k > Len(ps) THEN -1
    ELSE LET r == MatchSeq(ps[k] \o rest, s, pos, ic)
         IN  IF r # -1 THEN r ELSE TryAlt(ps, k + 1, rest, s, pos, ic)

\* pattern.match(s) is not None
re_match(pattern, s, ic) == MatchSeq(pattern, s, 0, ic) # -1

\* the start of the leftmost non-empty match at or after pos, -1 when there is none
NextMatch(pattern, s, pos, ic) ==
    LET starts == {p \in pos..(Len(s) - 1) : MatchSeq(pattern, s, p, ic) > p}
    IN  IF starts = {} THEN -1 ELSE Min(starts)

\* re.subn(pattern, repl, s): leftmost non-overlapping matches replaced
RECURSIVE SubnFrom(_, _, _, _, _)
SubnFrom(pattern, repl, s, pos, ic) ==
    LET p == NextMatch(pattern, s, pos, ic)
    IN  IF p = -1 THEN [text |-> Slice(s, pos, Len(s)), count |-> 0]
        ELSE LET r == SubnFrom(pattern, repl, s, MatchSeq(pattern, s, p, ic), ic)
             IN  [text |-> Slice(s, pos, p) \o repl \o r.text, count |-> r.count + 1]

re_subn(pattern, repl, s) == SubnFrom(pattern, repl, s, 0, FALSE)

\* re.sub(pattern, repl, s)
re_sub(pattern, repl, s) == re_subn(pattern, repl, s).text

\* re.findall(pattern, s, flags): the matched substrings, left to right
RECURSIVE FindallFrom(_, _, _, _)
FindallFrom(pattern, s, pos, ic) ==
    LET p == NextMatch(pattern, s, pos, ic)
    IN  IF p = -1 THEN <<>>
        ELSE <<Slice(s, p, MatchSeq(pattern, s, p, ic))>>
             \o FindallFrom(pattern, s, MatchSeq(pattern, s, p, ic), ic)

re_findall(pattern, s, ic) == FindallFrom(pattern, s, 0, ic)

(* ---------------------------------------------------------------------- *)
(* Grammar tables                                                          *)
(* ---------------------------------------------------------------------- *)

NUMBER_WORDS ==
    "zero" :> "0" @@ "oh" :> "0" @@ "owe" :> "0" @@ "one" :> "1" @@ "won" :> "1"
    @@ "two" :> "2" @@ "too" :> "2" @@ "to" :> "2" @@ "tu" :> "2"
    @@ "three" :> "3" @@ "tree" :> "3" @@ "free" :> "3"
    @@ "four" :> "4" @@ "for" :> "4" @@ "fore" :> "4"
    @@ "five" :> "5" @@ "fife" :> "5" @@ "six" :> "6" @@ "seven" :> "7"
    @@ "eight" :> "8" @@ "ate" :> "8" @@ "ait" :> "8"

\* (variant: the table lacks the letter e)
LetterWordsWithoutE ==
    "a" :> "a" @@ "ay" :> "a" @@ "hey" :> "a"
    @@ "b" :> "b" @@ "bee" :> "b" @@ "be" :> "b"
    @@ "c" :> "c" @@ "cee" :> "c" @@ "see" :> "c" @@ "sea" :> "c"
    @@ "d" :> "d" @@ "dee" :> "d"
    @@ "f" :> "f" @@ "ef" :> "f" @@ "eff" :> "f"
    @@ "g" :> "g" @@ "gee" :> "g" @@ "jee" :> "g"
    @@ "h" :> "h" @@ "aitch" :> "h" @@ "etch" :> "h" @@ "edge" :> "h"

LETTER_WORDS ==
    "a" :> "a" @@ "ay" :> "a" @@ "hey" :> "a"
    @@ "b" :> "b" @@ "bee" :> "b" @@ "be" :> "b"
    @@ "c" :> "c" @@ "cee" :> "c" @@ "see" :> "c" @@ "sea" :> "c"
    @@ "d" :> "d" @@ "dee" :> "d"
    @@ "e" :> "e" @@ "ee" :> "e" @@ "eee" :> "e"
    @@ "f" :> "f" @@ "ef" :> "f" @@ "eff" :> "f"
    @@ "g" :> "g" @@ "gee" :> "g" @@ "jee" :> "g"
    @@ "h" :> "h" @@ "aitch" :> "h" @@ "etch" :> "h" @@ "edge" :> "h"

PIECE_WORDS ==
    "pawn" :> "" @@ "prawn" :> ""
    @@ "knight" :> "N" @@ "night" :> "N" @@ "nite" :> "N" @@ "k night" :> "N"
    @@ "bishop" :> "B" @@ "biship" :> "B" @@ "beshop" :> "B" @@ "bshop" :> "B"
    @@ "rook" :> "R" @@ "rock" :> "R" @@ "ruke" :> "R"
    @@ "queen" :> "Q" @@ "quin" :> "Q"
    @@ "king" :> "K" @@ "keying" :> "K"

ACTION_WORDS ==
    "take" :> "x" @@ "takes" :> "x" @@ "taking" :> "x" @@ "takesu" :> "x"
    @@ "capture" :> "x" @@ "captures" :> "x" @@ "captured" :> "x" @@ "capturing" :> "x"
    @@ "by" :> "x" @@ "x" :> "x" @@ "ex" :> "x"

CHECK_WORDS ==
    "check" :> "+" @@ "plus" :> "+" @@ "checkmate" :> "#" @@ "mate" :> "#"
    @@ "hashtag" :> "#" @@ "pound" :> "#"

PROMOTION_PIECES ==
    "queen" :> "Q" @@ "q" :> "Q" @@ "rook" :> "R" @@ "r" :> "R"
    @@ "bishop" :> "B" @@ "b" :> "B" @@ "knight" :> "N" @@ "night" :> "N" @@ "n" :> "N"

PROMOTION_CUES == {"promote", "promotion", "promotes", "promoted", "equals", "equal", "=", "becomes"}

FILLER_WORDS ==
    {"to", "into", "towards", "toward", "on", "and", "then", "than", "the", "a", "an", "move",
     "my", "your", "their", "this", "that", "with", "from", "at", "is", "was", "are", "please",
     "just"}

SHOP_VARIANTS == {"shop", "shup", "sharp", "shock", "soup", "sop", "sub"}

SIDE_VARIANTS == {"side", "sigh", "sign"}

(* ---------------------------------------------------------------------- *)
(* Regular grammars                                                        *)
(* ---------------------------------------------------------------------- *)

FILES == "abcdefgh"
RANKS == "12345678"

\* (?:=[QRBN])?[+#]?
PromotionAndCheck == <<Opt(<<Lit("="), Set("QRBN")>>), Opt(<<Set("+#")>>)>>

SAN_MOVE_PATTERN ==
    <<BOL,
      Alt(<< <<Opt(<<Set("KQRBN")>>), Opt(<<Set(FILES)>>), Opt(<<Set(RANKS)>>), Opt(<<Lit("x")>>),
               Set(FILES), Set(RANKS)>> \o PromotionAndCheck,
             <<Set(FILES), Set(RANKS)>> \o PromotionAndCheck >>),
      EOL>>

CASTLE_SAN_PATTERN ==
    <<BOL, Set("O0"), Opt(<<Lit("-")>>), Set("O0"),
      Opt(<<Opt(<<Lit("-")>>), Set("O0")>>), Opt(<<Set("+#")>>), EOL>>

UCI_MOVE_PATTERN == <<BOL, Set(FILES), Set(RANKS), Set(FILES), Set(RANKS), Opt(<<Set("qrbn")>>), EOL>>

SQUARE_REGEX == <<BOL, Set(FILES), Set(RANKS), EOL>>

PIECE_REGEX == <<BOL, Set("nbrqk"), EOL>>

\* \s+ and \s*
Spaces1 == Rep(SpaceSet, 1)
Spaces0 == Rep(SpaceSet, 0)

\* \bw\b
Word(w) == <<WB, Lit(w), WB>>

CASTLING_PATTERNS ==
    << <<(<<WB, Lit("castle"), Spaces1, Alt(<< <<Lit("king")>>, <<Lit("short")>> >>), Spaces0,
           Opt(<<Lit("side")>>), WB>>), "o o", "castle king-side">>,
       <<(<<WB, Lit("castle"), Spaces1, Alt(<< <<Lit("queen")>>, <<Lit("long")>> >>), Spaces0,
           Opt(<<Lit("side")>>), WB>>), "o o o", "castle queen-side">>,
       <<(<<WB, Lit("king"), Spaces1, Lit("castle"), WB>>), "o o", "king castle">>,
       <<(<<WB, Lit("queen"), Spaces1, Lit("castle"), WB>>), "o o o", "queen castle">>,
       <<(<<WB, Lit("short"), Spaces1, Lit("castle"), WB>>), "o o", "short castle">>,
       <<(<<WB, Lit("long"), Spaces1, Lit("castle"), WB>>), "o o o", "long castle">>,
       <<(<<WB, Lit("o"), Spaces0, Lit("-"), Spaces0, Lit("o"), Spaces0, Lit("-"), Spaces0,
           Lit("o"), WB>>), "o o o", "spoken o-o-o">>,
       <<(<<WB, Lit("o"), Spaces0, Lit("-"), Spaces0, Lit("o"), WB>>), "o o", "spoken o-o">>,
       <<(<<WB, Alt(<< <<Lit("oh")>>, <<Lit("zero")>> >>), Spaces1, Lit("o"), Spaces1, Lit("o"),
           WB>>), "o o", "spoken oh o o">>,
       <<(<<WB, Alt(<< <<Lit("oh")>>, <<Lit("zero")>> >>), Spaces1, Lit("o"), Spaces1, Lit("o"),
           Spaces1, Lit("o"), WB>>), "o o o", "spoken oh o o o">>,
       <<Word("castle"), "o o", "castle alone">> >>

MULTIWORD_REPLACEMENTS ==
    << <<(<<WB, Lit("b"), Spaces0, Lit("-"), Spaces0, Lit("shop"), WB>>), "bishop", "b-shop -> bishop">>,
       <<(<<WB, Lit("be"), Spaces0, Lit("shop"), WB>>), "bishop", "be shop -> bishop">>,
       <<(<<WB, Lit("bee"), Spaces0, Lit("shop"), WB>>), "bishop", "bee shop -> bishop">>,
       <<(<<WB, Lit("b"), Spaces1, Lit("sharp"), WB>>), "bishop", "b sharp -> bishop">>,
       <<Word("bsop"), "bishop", "bsop -> bishop">>,
       <<(<<WB, Lit("b"), Spaces1, Lit("soup"), WB>>), "bishop", "b soup -> bishop">>,
       <<(<<WB, Lit("b"), Spaces1, Lit("sub"), WB>>), "bishop", "b sub -> bishop">>,
       <<Word("eshop"), "bishop", "eshop -> bishop">>,
       <<Word("knite"), "knight", "knite -> knight">>,
       <<Word("nite"), "knight", "nite -> knight">>,
       <<Word("night"), "knight", "night -> knight">>,
       <<Word("rock"), "rook", "rock -> rook">>,
       <<Word("quin"), "queen", "quin -> queen">> >>

\* [^a-z0-9\s+#=]
NotKept == [t |-> "set", cs |-> CharSet(AZ) \cup CharSet(DIGITS) \cup SpaceChars \cup {"+", "#", "="}, neg |-> TRUE]

\* [a-z0-9]+|[+#=]|O-O-O|O-O
TOKEN_PATTERN ==
    <<Alt(<< <<Rep(Set(AZ \o DIGITS), 1)>>, <<Set("+#=")>>, <<Lit("O-O-O")>>, <<Lit("O-O")>> >>)>>

(* ---------------------------------------------------------------------- *)
(* Lexical Cleaner                                                         *)
(* ---------------------------------------------------------------------- *)

\* the text and the trace after the replacements k, k+1, ... of the list
RECURSIVE ApplyFrom(_, _, _, _)
ApplyFrom(text, replacements, k, rules) ==
    IF k > Len(replacements) THEN [text |-> text, rules |-> rules]
    ELSE LET r == re_subn(replacements[k][1], replacements[k][2], text)
         IN  IF r.count > 0
             THEN ApplyFrom(r.text, replacements, k + 1, Append(rules, replacements[k][3]))
             ELSE ApplyFrom(text, replacements, k + 1, rules)

\* (variant: the replaced text is dropped, only the trace is kept)
apply_replacements_trace_only(text, replacements, rules) ==
    [text |-> text, rules |-> ApplyFrom(text, replacements, 1, rules).rules]

apply_replacements(text, replacements, rules) == ApplyFrom(text, replacements, 1, rules)

\* lines 535-536: the characters outside [a-z0-9\s+#=] blanked, the whitespace collapsed
CleanSymbols(c) ==
    [text |-> str_strip(re_sub(<<Spaces1>>, " ", re_sub(<<NotKept>>, " ", c.text))), rules |-> c.rules]

\* line 534
CleanCastling(c) == CleanSymbols(apply_replacements(c.text, CASTLING_PATTERNS, c.rules))

\* lines 530-536 of normalize_transcription
Clean(raw, rules) ==
    CleanCastling(apply_replacements(str_replace(str_strip(str_lower(raw)), "-", " "),
                                     MULTIWORD_REPLACEMENTS, rules))

tokenize(text) ==
    LET found == re_findall(TOKEN_PATTERN, text, TRUE)
        kept == SelectSeq(found, LAMBDA t : str_strip(t) # "")
    IN  [k \in 1..Len(kept) |-> str_lower(kept[k])]

(* ---------------------------------------------------------------------- *)
(* Direct Matcher                                                          *)
(* ---------------------------------------------------------------------- *)

\* add(value) of _generate_direct_candidates
DirectAdd(candidates, value) ==
    LET val == str_strip(value)
    IN  IF val # "" /\ ~InList(val, candidates) THEN Append(candidates, val) ELSE candidates

\* the order-preserving uniqueness loop
RECURSIVE Uniq(_, _)
Uniq(candidates, uniq) ==
    IF Len(candidates) = 0 THEN uniq
    ELSE Uniq(Tail(candidates),
              IF InList(Head(candidates), uniq) THEN uniq ELSE Append(uniq, Head(candidates)))

\* the castle form emitted on a castling match
CastleNormalized(compact) ==
    LET up == str_replace(str_upper(compact), "0", "O")
    IN  IF ~str_contains(up, "-")
        THEN (IF Len(up) = 2 THEN "O-O" ELSE IF Len(up) = 3 THEN "O-O-O" ELSE up)
        ELSE up

\* the candidates the SAN branch adds
SanAdds(candidates, compact) ==
    LET c1 == DirectAdd(candidates, compact)
    IN  IF compact # "" /\ str_contains("kqrbn", Ch(compact, 0))
        THEN DirectAdd(c1, UpperCh(Ch(compact, 0)) \o Slice(compact, 1, Len(compact)))
        ELSE c1

\* lines 317-326: the castle branch (a stage yields the candidates, the trace and matched_direct)
DirectCastle(compact, normalized, rules) ==
    IF re_match(CASTLE_SAN_PATTERN, compact, TRUE)
    THEN [candidates |-> DirectAdd(<<>>, normalized),
          rules |-> Append(rules, "direct castle candidate '" \o normalized \o "'"),
          matched_direct |-> TRUE]
    ELSE [candidates |-> <<>>, rules |-> rules, matched_direct |-> FALSE]

\* lines 328-333: the SAN branch
DirectSan(compact, st) ==
    IF ~st.matched_direct /\ re_match(SAN_MOVE_PATTERN, compact, TRUE)
    THEN [candidates |-> SanAdds(st.candidates, compact),
          rules |-> Append(st.rules, "direct SAN candidate '" \o compact \o "'"),
          matched_direct |-> TRUE]
    ELSE st

\* lines 335-339: the UCI branch
DirectUci(compact, lower_uci, st) ==
    IF re_match(UCI_MOVE_PATTERN, compact, TRUE)
    THEN [candidates |-> DirectAdd(st.candidates, lower_uci),
          rules |-> Append(st.rules, "direct UCI candidate '" \o lower_uci \o "'"),
          matched_direct |-> TRUE]
    ELSE st

\* lines 341-349
DirectUniq(st) ==
    [candidates |-> IF st.matched_direct /\ Len(st.candidates) > 1 THEN Uniq(st.candidates, <<>>)
                    ELSE st.candidates,
     rules |-> st.rules]

\* lines 304-349, for the text without its whitespace
DirectFrom(compact, rules) ==
    IF compact = "" THEN [candidates |-> <<>>, rules |-> rules]
    ELSE DirectUniq(DirectUci(compact, str_lower(compact),
                              DirectSan(compact,
                                        DirectCastle(compact, CastleNormalized(compact), rules))))

generate_direct_candidates(raw, rules) ==
    IF raw = "" THEN [candidates |-> <<>>, rules |-> rules]
    ELSE DirectFrom(re_sub(<<Spaces1>>, "", str_strip(raw)), rules)

(* ---------------------------------------------------------------------- *)
(* Token Mapper                                                            *)
(* ---------------------------------------------------------------------- *)

\* tokens[k]; NoToken stands for the IndexError of an index past the end
NoToken == ""

Item(tokens, k) == IF k < Len(tokens) THEN tokens[k + 1] ELSE NoToken

\* (variant: the bound check written with <=)
HasIndexOffByOne(tokens, k) == k <= Len(tokens)

\* the bound checks  k < len(tokens)  that guard tokens[k]
HasIndex(tokens, k) == k < Len(tokens)

\* (variant: the scan gives up at the first token that is neither a filler nor a piece)
PromoScanIterFillersOnly(tokens, j) ==
    LET candidate == Item(tokens, j)
    IN  IF candidate \in FILLER_WORDS THEN [found |-> "", next |-> j + 1]
        ELSE IF candidate \in DOMAIN PROMOTION_PIECES
             THEN [found |-> PROMOTION_PIECES[candidate], next |-> j]
        ELSE IF candidate \in DOMAIN PIECE_WORDS /\ PIECE_WORDS[candidate] # ""
             THEN [found |-> PIECE_WORDS[candidate], next |-> j]
        ELSE [found |-> "", next |-> Len(tokens)]

\* one iteration of the promotion scan at cursor j (lines 367-378):
\* found is the piece of a break, "" when the scan goes on to j + 1
PromoScanIter(tokens, j) ==
    LET candidate == Item(tokens, j)
    IN  IF candidate \in FILLER_WORDS THEN [found |-> "", next |-> j + 1]
        ELSE IF candidate \in DOMAIN PROMOTION_PIECES
             THEN [found |-> PROMOTION_PIECES[candidate], next |-> j]
        ELSE IF candidate \in DOMAIN PIECE_WORDS /\ PIECE_WORDS[candidate] # ""
             THEN [found |-> PIECE_WORDS[candidate], next |-> j]
        ELSE [found |-> "", next |-> j + 1]

\* the scan from j to its break or to the end of the tokens
RECURSIVE PromoScan(_, _)
PromoScan(tokens, j) ==
    IF ~(j < Len(tokens)) THEN [found |-> "", next |-> j]
    ELSE LET r == PromoScanIter(tokens, j)
         IN  IF r.found # "" THEN r ELSE PromoScan(tokens, r.next)

\* (variant: the cursor is not advanced after a cue without piece)
PromoEmitStuck(i, j, promotion_piece) ==
    IF promotion_piece # ""
    THEN [emit |-> <<"=" \o str_upper(promotion_piece)>>,
          rules |-> <<"promotion to " \o str_upper(promotion_piece)>>, next |-> j + 1]
    ELSE [emit |-> <<"=">>, rules |-> <<"promotion cue without piece">>, next |-> i]

\* lines 379-387: what the promotion rule emits once the scan from i + 1 has ended at j
PromoEmit(i, j, promotion_piece) ==
    IF promotion_piece # ""
    THEN [emit |-> <<"=" \o str_upper(promotion_piece)>>,
          rules |-> <<"promotion to " \o str_upper(promotion_piece)>>, next |-> j + 1]
    ELSE [emit |-> <<"=">>, rules |-> <<"promotion cue without piece">>, next |-> i + 1]

\* the rules of one iteration of the loop of _map_tokens at cursor i, for a token that is not a
\* promotion cue (or is a filler): the tokens and trace entries appended and the next cursor
MapRule(token, has_next, next_token, i) ==
    IF token \in FILLER_WORDS
    THEN [emit |-> <<>>, rules |-> <<"removed filler '" \o token \o "'">>, next |-> i + 1]
    ELSE IF token \in DOMAIN CHECK_WORDS
    THEN [emit |-> <<CHECK_WORDS[token]>>,
          rules |-> <<"mapped '" \o token \o "' -> '" \o CHECK_WORDS[token] \o "'">>,
          next |-> i + 1]
    ELSE IF token \in DOMAIN ACTION_WORDS
    THEN [emit |-> <<"x">>, rules |-> <<"mapped '" \o token \o "' -> 'x'">>, next |-> i + 1]
    ELSE IF token \in {"b", "be", "bee"} /\ has_next /\ next_token \in SHOP_VARIANTS
    THEN [emit |-> <<"B">>, rules |-> <<"b + shop -> 'B'">>, next |-> i + 2]
    ELSE IF token \in {"king", "queen"} /\ has_next /\ next_token \in SIDE_VARIANTS
    THEN [emit |-> <<token \o "side">>, rules |-> <<token \o " side collapsed">>, next |-> i + 2]
    ELSE IF token \in {"kingside", "shortside"}
    THEN [emit |-> <<"O-O">>, rules |-> <<token \o " -> O-O">>, next |-> i + 1]
    ELSE IF token \in {"queenside", "longside"}
    THEN [emit |-> <<"O-O-O">>, rules |-> <<token \o " -> O-O-O">>, next |-> i + 1]
    ELSE IF token \in DOMAIN PIECE_WORDS
    THEN (IF PIECE_WORDS[token] # ""
          THEN [emit |-> <<str_upper(PIECE_WORDS[token])>>,
                rules |-> <<"piece '" \o token \o "' -> '" \o str_upper(PIECE_WORDS[token]) \o "'">>,
                next |-> i + 1]
          ELSE [emit |-> <<>>, rules |-> <<"dropped pawn token '" \o token \o "'">>,
                next |-> i + 1])
    ELSE IF token \in DOMAIN NUMBER_WORDS
    THEN [emit |-> <<NUMBER_WORDS[token]>>,
          rules |-> <<"number word '" \o token \o "' -> '" \o NUMBER_WORDS[token] \o "'">>,
          next |-> i + 1]
    ELSE IF token \in DOMAIN LETTER_WORDS
    THEN [emit |-> <<LETTER_WORDS[token]>>,
          rules |-> <<"letter word '" \o token \o "' -> '" \o LETTER_WORDS[token] \o "'">>,
          next |-> i + 1]
    ELSE [emit |-> <<token>>, rules |-> <<>>, next |-> i + 1]

\* (variant: the token after the cursor is not looked at)
MapIterNoLookahead(tokens, i) ==
    LET r == MapRule(Item(tokens, i), FALSE, NoToken, i)
    IN  [emit |-> r.emit, rules |-> r.rules, next |-> r.next, reads |-> {i}]

\* lines 356-357 and the rule that fires: the tokens read are tokens[i] and, when it exists, tokens[i + 1]
MapIter(tokens, i) ==
    LET has_next == HasIndex(tokens, i + 1)
        r == MapRule(Item(tokens, i), has_next, IF has_next THEN Item(tokens, i + 1) ELSE NoToken, i)
    IN  [emit |-> r.emit, rules |-> r.rules, next |-> r.next,
         reads |-> {i} \cup (IF has_next THEN {i + 1} ELSE {})]

\* the token at cursor i starts the promotion rule (it is a cue and not a filler)
IsPromotionCue(tokens, i) == Item(tokens, i) \notin FILLER_WORDS /\ Item(tokens, i) \in PROMOTION_CUES

\* _map_tokens as one function: the mapped tokens and trace from cursor i on
RECURSIVE MapFrom(_, _)
MapFrom(tokens, i) ==
    IF ~(i < Len(tokens)) THEN [mapped |-> <<>>, rules |-> <<>>]
    ELSE LET scan == PromoScan(tokens, i + 1)
             r == IF IsPromotionCue(tokens, i) THEN PromoEmit(i, scan.next, scan.found)
                  ELSE MapIter(tokens, i)
             rest == MapFrom(tokens, r.next)
         IN  [mapped |-> r.emit \o rest.mapped, rules |-> r.rules \o rest.rules]

map_tokens(tokens) == MapFrom(tokens, 0)

(* ---------------------------------------------------------------------- *)
(* Token Merger                                                            *)
(* ---------------------------------------------------------------------- *)

\* (variant: the merged castle is emitted in lowercase, as the glyph tokens of line 256 are spelled)
CombineIterLowercaseGlyph(tokens, i) ==
    LET token == Item(tokens, i)
        o3hit == token \in {"o", "0"} /\ HasIndex(tokens, i + 2)
                 /\ Item(tokens, i + 1) = "o" /\ Item(tokens, i + 2) = "o"
        o2hit == token \in {"o", "0"} /\ HasIndex(tokens, i + 1) /\ Item(tokens, i + 1) = "o"
        sqhit == token \in Range(LETTER_WORDS) /\ HasIndex(tokens, i + 1)
                 /\ Item(tokens, i + 1) \in Range(NUMBER_WORDS)
    IN  IF token \in {"", " "} THEN [emit |-> <<>>, next |-> i + 1, reads |-> {i}]
        ELSE IF token = "o-o" \/ token = "o-o-o"
        THEN [emit |-> <<str_upper(token)>>, next |-> i + 1, reads |-> {i}]
        ELSE IF o3hit THEN [emit |-> <<"o-o-o">>, next |-> i + 3, reads |-> {i}]
        ELSE IF o2hit THEN [emit |-> <<"o-o">>, next |-> i + 2, reads |-> {i}]
        ELSE IF sqhit THEN [emit |-> <<token \o Item(tokens, i + 1)>>, next |-> i + 2, reads |-> {i}]
        ELSE [emit |-> <<token>>, next |-> i + 1, reads |-> {i}]

\* one iteration of the loop of _combine_letter_digit_tokens at cursor i
CombineIter(tokens, i) ==
    LET token == Item(tokens, i)
        o3 == token \in {"o", "0"} /\ HasIndex(tokens, i + 2)
        o3hit == o3 /\ Item(tokens, i + 1) = "o" /\ Item(tokens, i + 2) = "o"
        o2 == token \in {"o", "0"} /\ HasIndex(tokens, i + 1)
        o2hit == o2 /\ Item(tokens, i + 1) = "o"
        sq == token \in Range(LETTER_WORDS) /\ HasIndex(tokens, i + 1)
        sqhit == sq /\ Item(tokens, i + 1) \in Range(NUMBER_WORDS)
        blank == token \in {"", " "}
        glyph == token = "o-o" \/ token = "o-o-o"
        reads3 == IF o3 THEN {i + 1} \cup (IF Item(tokens, i + 1) = "o" THEN {i + 2} ELSE {}) ELSE {}
        reads2 == IF ~o3hit /\ o2 THEN {i + 1} ELSE {}
        reads1 == IF ~o3hit /\ ~o2hit /\ sq THEN {i + 1} ELSE {}
        reads == IF blank \/ glyph THEN {i} ELSE {i} \cup reads3 \cup reads2 \cup reads1
        r == IF blank THEN [emit |-> <<>>, next |-> i + 1]
             ELSE IF glyph THEN [emit |-> <<str_upper(token)>>, next |-> i + 1]
             ELSE IF o3hit THEN [emit |-> <<"O-O-O">>, next |-> i + 3]
             ELSE IF o2hit THEN [emit |-> <<"O-O">>, next |-> i + 2]
             ELSE IF sqhit THEN [emit |-> <<token \o Item(tokens, i + 1)>>, next |-> i + 2]
             ELSE [emit |-> <<token>>, next |-> i + 1]
    IN  [emit |-> r.emit, next |-> r.next, reads |-> reads]

RECURSIVE CombineFrom(_, _)
CombineFrom(tokens, i) ==
    IF ~(i < Len(tokens)) THEN <<>>
    ELSE CombineIter(tokens, i).emit \o CombineFrom(tokens, CombineIter(tokens, i).next)

combine_letter_digit_tokens(tokens) == CombineFrom(tokens, 0)

\* one iteration of the loop of _merge_square_tokens at cursor i
MergeIter(tokens, i) ==
    LET token == Item(tokens, i)
        piece == re_match(PIECE_REGEX, token, FALSE)
        sq == token \in Range(LETTER_WORDS) /\ HasIndex(tokens, i + 1)
        sqhit == sq /\ str_contains("12345678", Item(tokens, i + 1))
        reads == {i} \cup (IF ~piece /\ sq THEN {i + 1} ELSE {})
        r == IF piece THEN [emit |-> <<str_upper(token)>>, next |-> i + 1]
             ELSE IF sqhit THEN [emit |-> <<token \o Item(tokens, i + 1)>>, next |-> i + 2]
             ELSE [emit |-> <<token>>, next |-> i + 1]
    IN  [emit |-> r.emit, next |-> r.next, reads |-> reads]

RECURSIVE MergeFrom(_, _)
MergeFrom(tokens, i) ==
    IF ~(i < Len(tokens)) THEN <<>>
    ELSE MergeIter(tokens, i).emit \o MergeFrom(tokens, MergeIter(tokens, i).next)

merge_square_tokens(tokens) == MergeFrom(tokens, 0)

(* ---------------------------------------------------------------------- *)
(* Candidate Generator                                                     *)
(* ---------------------------------------------------------------------- *)

format_token(token) ==
    IF token \in {"O-O", "O-O-O", "+", "#"} THEN token
    ELSE IF startswith(token, "=") THEN str_upper(token)
    ELSE IF token = "x" THEN "x"
    ELSE IF re_match(SQUARE_REGEX, token, TRUE) THEN str_lower(token)
    ELSE IF re_match(PIECE_REGEX, str_upper(token), FALSE) THEN str_upper(token)
    ELSE token

IsSquare(tok) == re_match(SQUARE_REGEX, tok, TRUE)

\* list.insert(index, value)
ListInsert(list, index, value) ==
    LET at == IF index > Len(list) THEN Len(list) ELSE index
    IN  SubSeq(list, 1, at) \o <<value>> \o SubSeq(list, at + 1, Len(list))

\* (variant: the scan keeps the first square it meets)
RECURSIVE FirstSquare(_, _, _)
FirstSquare(toks, idx, insert_at) ==
    IF idx >= Len(toks) THEN insert_at
    ELSE FirstSquare(toks, idx + 1, IF IsSquare(toks[idx + 1]) /\ insert_at < 0 THEN idx ELSE insert_at)

\* lines 475-478: the index of the last square token, -1 when there is none
RECURSIVE LastSquare(_, _, _)
LastSquare(toks, idx, insert_at) ==
    IF idx >= Len(toks) THEN insert_at
    ELSE LastSquare(toks, idx + 1, IF IsSquare(toks[idx + 1]) THEN idx ELSE insert_at)

\* lines 480-482: the promotion tokens inserted one after the other
RECURSIVE InsertPromos(_, _, _)
InsertPromos(toks, promos, insert_at) ==
    IF Len(promos) = 0 THEN toks
    ELSE InsertPromos(ListInsert(toks, insert_at + 1, Head(promos)), Tail(promos), insert_at + 1)

\* line 470
Formatted(tokens) ==
    LET nonempty == SelectSeq(tokens, LAMBDA t : t # "")
    IN  [k \in 1..Len(nonempty) |-> format_token(nonempty[k])]

\* lines 474-484: the promotion tokens put after the square at insert_at, or at the end
SpliceAt(promotion_tokens, non_promo_tokens, insert_at) ==
    [promotion_tokens |-> promotion_tokens,
     non_promo_tokens |->
         IF Len(promotion_tokens) = 0 THEN non_promo_tokens
         ELSE IF insert_at >= 0 THEN InsertPromos(non_promo_tokens, promotion_tokens, insert_at)
         ELSE non_promo_tokens \o promotion_tokens]

\* lines 474-478
Splice(promotion_tokens, non_promo_tokens) ==
    SpliceAt(promotion_tokens, non_promo_tokens, LastSquare(non_promo_tokens, 0, -1))

\* lines 471-472
Partition(formatted_tokens) ==
    Splice(SelectSeq(formatted_tokens, LAMBDA t : startswith(t, "=")),
           SelectSeq(formatted_tokens, LAMBDA t : ~startswith(t, "=")))

\* lines 470-484: the token order of the base string
Spliced(tokens) == Partition(Formatted(tokens))

\* (variant: the membership test of add_candidate is missing)
AddCandidateAlways(ordered_candidates, value) ==
    IF value # "" THEN Append(ordered_candidates, value) ELSE ordered_candidates

\* add_candidate(value)
AddCandidate(ordered_candidates, value) ==
    IF value # "" /\ ~InList(value, ordered_candidates) THEN Append(ordered_candidates, value)
    ELSE ordered_candidates

\* lines 500-504: the letter of the first two-character promotion token
\* (variant: the promotion letter keeps its case)
RECURSIVE PromotionSuffixKeepCase(_)
PromotionSuffixKeepCase(promos) ==
    IF Len(promos) = 0 THEN ""
    ELSE IF Len(Head(promos)) = 2 THEN Ch(Head(promos), 1)
    ELSE PromotionSuffixKeepCase(Tail(promos))

RECURSIVE PromotionSuffix(_)
PromotionSuffix(promos) ==
    IF Len(promos) = 0 THEN ""
    ELSE IF Len(Head(promos)) = 2 THEN LowerCh(Ch(Head(promos), 1))
    ELSE PromotionSuffix(Tail(promos))

\* (variant: the king is forgotten among the piece letters)
NeedsLowerVariantNoKing(base) == base # "" /\ Ch(base, 0) \in {"Q", "R", "B", "N"} /\ Len(base) >= 2

\* line 495: the base string gets a twin with its first letter lowercased
NeedsLowerVariant(base) == base # "" /\ isupper(Ch(base, 0)) /\ Len(base) >= 2 /\ Ch(base, 0) # "O"

\* lines 493-496: the base string, and its twin when the base starts with a piece letter
BaseCandidates(base) ==
    IF NeedsLowerVariant(base)
    THEN AddCandidate(AddCandidate(<<>>, base), LowerCh(Ch(base, 0)) \o Slice(base, 1, Len(base)))
    ELSE AddCandidate(<<>>, base)

\* line 498
Squares(non_promo_tokens) ==
    LET sqs == SelectSeq(non_promo_tokens, IsSquare)
    IN  [k \in 1..Len(sqs) |-> str_lower(sqs[k])]

\* line 505
UciCandidate(squares, promotion_tokens) == squares[1] \o squares[2] \o PromotionSuffix(promotion_tokens)

\* (variant: the trace entry is put in front of the earlier entries)
WithUciEntryFirst(st, squares, promotion_tokens) ==
    IF Len(squares) >= 2
    THEN [candidates |-> AddCandidate(st.candidates, UciCandidate(squares, promotion_tokens)),
          rules |-> <<"generated UCI candidate '" \o UciCandidate(squares, promotion_tokens) \o "'">>
                    \o st.rules]
    ELSE st

\* lines 499-507
WithUci(st, squares, promotion_tokens) ==
    IF Len(squares) >= 2
    THEN [candidates |-> AddCandidate(st.candidates, UciCandidate(squares, promotion_tokens)),
          rules |-> Append(st.rules,
                           "generated UCI candidate '" \o UciCandidate(squares, promotion_tokens) \o "'")]
    ELSE st

\* lines 509-510
WithLowercase(st, base) ==
    [candidates |-> IF base # "" /\ islower(Ch(base, 0)) THEN AddCandidate(st.candidates, str_lower(base))
                    ELSE st.candidates,
     rules |-> st.rules]

\* lines 486-512
Ordered(base, squares, promotion_tokens, rules) ==
    WithLowercase(WithUci([candidates |-> BaseCandidates(base), rules |-> rules], squares, promotion_tokens),
                  base)

GenerateFrom(sp, rules) ==
    Ordered(join(sp.non_promo_tokens), Squares(sp.non_promo_tokens), sp.promotion_tokens, rules)

generate_candidates(tokens, rules) ==
    IF Len(tokens) = 0 THEN [candidates |-> <<>>, rules |-> rules]
    ELSE GenerateFrom(Spliced(tokens), rules)

(* ---------------------------------------------------------------------- *)
(* Result Assembler                                                        *)
(* ---------------------------------------------------------------------- *)

\* (variant: the membership test is missing)
RECURSIVE CombineIntoAll(_, _)
CombineIntoAll(combined_candidates, source) ==
    IF Len(source) = 0 THEN combined_candidates
    ELSE CombineIntoAll(IF Head(source) # "" THEN Append(combined_candidates, Head(source))
                        ELSE combined_candidates,
                        Tail(source))

\* lines 544-548
RECURSIVE CombineInto(_, _)
CombineInto(combined_candidates, source) ==
    IF Len(source) = 0 THEN combined_candidates
    ELSE CombineInto(IF Head(source) # "" /\ ~InList(Head(source), combined_candidates)
                     THEN Append(combined_candidates, Head(source)) ELSE combined_candidates,
                     Tail(source))

\* (variant: the two sources are visited in the other order)
CombinedGeneratedFirst(direct_candidates, generated_candidates) ==
    CombineInto(CombineInto(<<>>, generated_candidates), direct_candidates)

\* line 545: direct candidates first, generated candidates second
Combined(direct_candidates, generated_candidates) ==
    CombineInto(CombineInto(<<>>, direct_candidates), generated_candidates)

NormalizationResult(raw, cleaned_text, toks, merged_tokens, cands, direct, rules) ==
    [raw_text |-> raw, cleaned_text |-> cleaned_text, tokens |-> toks, merged_tokens |-> merged_tokens,
     candidates |-> cands, direct_candidates |-> direct, applied_rules |-> rules]

\* normalize_transcription as one function of its argument (None is NoneArg)
NoneArg == [none |-> TRUE]

StrArg(s) == [none |-> FALSE, s |-> s]

\* (variant: only None is taken for an absent text)
TruthyNotNone(arg) == ~arg.none

\* not raw_text  is  ~Truthy(raw_text)
Truthy(arg) == ~arg.none /\ arg.s # ""

\* lines 544-558
Assembled(raw, direct, c, toks, merged, g) ==
    NormalizationResult(raw, c.text, toks, merged, Combined(direct, g.candidates), direct, g.rules)

\* lines 540-542
AfterMerge(raw, direct, c, toks, m, merged) ==
    Assembled(raw, direct, c, toks, merged, generate_candidates(merged, c.rules \o m.rules))

\* lines 539-541
AfterMap(raw, direct, c, toks, m) ==
    AfterMerge(raw, direct, c, toks, m, merge_square_tokens(combine_letter_digit_tokens(m.mapped)))

\* lines 538-539
AfterTokenize(raw, direct, c, toks) == AfterMap(raw, direct, c, toks, map_tokens(toks))

\* lines 530-538
AfterClean(raw, direct, c) == AfterTokenize(raw, direct, c, tokenize(c.text))

\* lines 529-536
AfterDirect(raw, d) == AfterClean(raw, d.candidates, Clean(raw, d.rules))

normalize_transcription(arg) ==
    IF ~Truthy(arg)
    THEN NormalizationResult("", "", <<>>, <<>>, <<>>, <<>>, <<"empty input">>)
    ELSE AfterDirect(arg.s, generate_direct_candidates(arg.s, <<>>))

(* ---------------------------------------------------------------------- *)
(* The calls of normalize_transcription as a state machine                 *)
(* ---------------------------------------------------------------------- *)

\* the callers (threads) that invoke normalize_transcription
Callers == {"c1", "c2"}

VARIABLES
    pending,              \* per caller: the arguments it may pass
    calls_left,           \* per caller: the number of calls it may still make
    pc,                   \* per caller: where its current call stands
    raw_text,             \* the argument of the current call (NoneArg or StrArg(text))
    applied_rules,        \* the trace list of the current call
    direct_candidates,
    cleaned,
    tokens,
    mapped,               \* the list built by _map_tokens
    combined,             \* merged after line 540 (the list built by _combine_letter_digit_tokens)
    merged,               \* merged after line 541 (the list built by _merge_square_tokens)
    i,                    \* the cursor of the loop that is running
    j,                    \* the cursor of the promotion scan
    promotion_piece,      \* "" for None
    generated_candidates,
    result,               \* <<>> or <<the NormalizationResult returned>>
    transcriber_cache,    \* stt._transcriber_cache: cache key -> transcriber
    stt_pc,               \* where the current call of create_transcriber stands
    stt_frame,            \* its arguments and locals
    constructed,          \* the number of transcriber objects constructed so far
    stt_log,              \* the calls that have ended: arguments and outcome, in order
    stt_left              \* the number of calls of create_transcriber still to come

normVars == <<pending, calls_left, pc, raw_text, applied_rules, direct_candidates, cleaned, tokens, mapped,
              combined, merged, i, j, promotion_piece, generated_candidates, result>>

sttVars == <<transcriber_cache, stt_pc, stt_frame, constructed, stt_log, stt_left>>

vars == <<normVars, sttVars>>


\* (variant: the trace list of the caller's previous call is used again)
StaleTrace(previous) == previous

\* line 528: the trace list a call starts with
FreshTrace(previous) == <<>>

\* lines 515-528: entry, and the return for an empty or absent text
Call(self) ==
    /\ pc[self] \in {"idle", "done"}
    /\ calls_left[self] > 0
    /\ \E arg \in pending[self] :
           /\ calls_left' = [calls_left EXCEPT ![self] = @ - 1]
           /\ UNCHANGED pending
           /\ raw_text' = [raw_text EXCEPT ![self] = arg]
           /\ direct_candidates' = [direct_candidates EXCEPT ![self] = <<>>]
           /\ cleaned' = [cleaned EXCEPT ![self] = ""]
           /\ tokens' = [tokens EXCEPT ![self] = <<>>]
           /\ mapped' = [mapped EXCEPT ![self] = <<>>]
           /\ combined' = [combined EXCEPT ![self] = <<>>]
           /\ merged' = [merged EXCEPT ![self] = <<>>]
           /\ i' = [i EXCEPT ![self] = 0]
           /\ j' = [j EXCEPT ![self] = 0]
           /\ promotion_piece' = [promotion_piece EXCEPT ![self] = ""]
           /\ generated_candidates' = [generated_candidates EXCEPT ![self] = <<>>]
           /\ IF ~Truthy(arg)
              THEN /\ applied_rules' = [applied_rules EXCEPT ![self] = <<"empty input">>]
                   /\ result' = [result EXCEPT ![self] =
                          <<NormalizationResult("", "", <<>>, <<>>, <<>>, <<>>, <<"empty input">>)>>]
                   /\ pc' = [pc EXCEPT ![self] = "done"]
              ELSE /\ applied_rules' = [applied_rules EXCEPT ![self] = FreshTrace(@)]
                   /\ result' = [result EXCEPT ![self] = <<>>]
                   /\ pc' = [pc EXCEPT ![self] = "direct"]
    /\ UNCHANGED sttVars

\* line 529
Direct(self) ==
    /\ pc[self] = "direct"
    /\ LET d == generate_direct_candidates(raw_text[self].s, applied_rules[self])
       IN  /\ direct_candidates' = [direct_candidates EXCEPT ![self] = d.candidates]
           /\ applied_rules' = [applied_rules EXCEPT ![self] = d.rules]
    /\ pc' = [pc EXCEPT ![self] = "clean"]
    /\ UNCHANGED <<pending, calls_left, raw_text, cleaned, tokens, mapped, combined, merged, i, j,
                   promotion_piece, generated_candidates, result>>
    /\ UNCHANGED sttVars

\* lines 530-536
CleanText(self) ==
    /\ pc[self] = "clean"
    /\ LET c == Clean(raw_text[self].s, applied_rules[self])
       IN  /\ cleaned' = [cleaned EXCEPT ![self] = c.text]
           /\ applied_rules' = [applied_rules EXCEPT ![self] = c.rules]
    /\ pc' = [pc EXCEPT ![self] = "tokenize"]
    /\ UNCHANGED <<pending, calls_left, raw_text, direct_candidates, tokens, mapped, combined, merged, i, j,
                   promotion_piece, generated_candidates, result>>
    /\ UNCHANGED sttVars

\* line 538, and the entry of _map_tokens
Tokenize(self) ==
    /\ pc[self] = "tokenize"
    /\ tokens' = [tokens EXCEPT ![self] = tokenize(cleaned[self])]
    /\ mapped' = [mapped EXCEPT ![self] = <<>>]
    /\ i' = [i EXCEPT ![self] = 0]
    /\ pc' = [pc EXCEPT ![self] = "map"]
    /\ UNCHANGED <<pending, calls_left, raw_text, applied_rules, direct_candidates, cleaned, combined, merged, j,
                   promotion_piece, generated_candidates, result>>
    /\ UNCHANGED sttVars

\* an index read past the end of the list raises IndexError
Faulty(reads, list) == \E k \in reads : ~(k < Len(list))

\* one iteration of the loop of _map_tokens, up to the start of the promotion scan
MapStep(self) ==
    /\ pc[self] = "map"
    /\ i[self] < Len(tokens[self])
    /\ IF IsPromotionCue(tokens[self], i[self])
       THEN /\ promotion_piece' = [promotion_piece EXCEPT ![self] = ""]
            /\ j' = [j EXCEPT ![self] = i[self] + 1]
            /\ pc' = [pc EXCEPT ![self] = "promo_scan"]
            /\ UNCHANGED <<mapped, applied_rules, i>>
       ELSE LET r == MapIter(tokens[self], i[self])
            IN  IF Faulty(r.reads, tokens[self])
                THEN /\ pc' = [pc EXCEPT ![self] = "raised"]
                     /\ UNCHANGED <<mapped, applied_rules, i, j, promotion_piece>>
                ELSE /\ mapped' = [mapped EXCEPT ![self] = @ \o r.emit]
                     /\ applied_rules' = [applied_rules EXCEPT ![self] = @ \o r.rules]
                     /\ i' = [i EXCEPT ![self] = r.next]
                     /\ UNCHANGED <<pc, j, promotion_piece>>
    /\ UNCHANGED <<pending, calls_left, raw_text, direct_candidates, cleaned, tokens, combined, merged,
                   generated_candidates, result>>
    /\ UNCHANGED sttVars

\* one iteration of the promotion scan (lines 367-378)
PromoScanStep(self) ==
    /\ pc[self] = "promo_scan"
    /\ promotion_piece[self] = ""
    /\ j[self] < Len(tokens[self])
    /\ LET r == PromoScanIter(tokens[self], j[self])
       IN  /\ promotion_piece' = [promotion_piece EXCEPT ![self] = r.found]
           /\ j' = [j EXCEPT ![self] = r.next]
    /\ UNCHANGED <<pending, calls_left, pc, raw_text, applied_rules, direct_candidates, cleaned, tokens, mapped,
                   combined, merged, i, generated_candidates, result>>
    /\ UNCHANGED sttVars

\* the scan has ended by break or at the end of the tokens (lines 379-387)
PromoEnd(self) ==
    /\ pc[self] = "promo_scan"
    /\ promotion_piece[self] # "" \/ ~(j[self] < Len(tokens[self]))
    /\ LET r == PromoEmit(i[self], j[self], promotion_piece[self])
       IN  /\ mapped' = [mapped EXCEPT ![self] = @ \o r.emit]
           /\ applied_rules' = [applied_rules EXCEPT ![self] = @ \o r.rules]
           /\ i' = [i EXCEPT ![self] = r.next]
    /\ pc' = [pc EXCEPT ![self] = "map"]
    /\ UNCHANGED <<pending, calls_left, raw_text, direct_candidates, cleaned, tokens, combined, merged, j,
                   promotion_piece, generated_candidates, result>>
    /\ UNCHANGED sttVars

\* _map_tokens returns (line 539); entry of _combine_letter_digit_tokens
MapDone(self) ==
    /\ pc[self] = "map"
    /\ ~(i[self] < Len(tokens[self]))
    /\ combined' = [combined EXCEPT ![self] = <<>>]
    /\ i' = [i EXCEPT ![self] = 0]
    /\ pc' = [pc EXCEPT ![self] = "combine"]
    /\ UNCHANGED <<pending, calls_left, raw_text, applied_rules, direct_candidates, cleaned, tokens, mapped,
                   merged, j, promotion_piece, generated_candidates, result>>
    /\ UNCHANGED sttVars

\* one iteration of the loop of _combine_letter_digit_tokens
CombineStep(self) ==
    /\ pc[self] = "combine"
    /\ i[self] < Len(mapped[self])
    /\ LET r == CombineIter(mapped[self], i[self])
       IN  IF Faulty(r.reads, mapped[self])
           THEN /\ pc' = [pc EXCEPT ![self] = "raised"]
                /\ UNCHANGED <<combined, i>>
           ELSE /\ combined' = [combined EXCEPT ![self] = @ \o r.emit]
                /\ i' = [i EXCEPT ![self] = r.next]
                /\ UNCHANGED pc
    /\ UNCHANGED <<pending, calls_left, raw_text, applied_rules, direct_candidates, cleaned, tokens, mapped,
                   merged, j, promotion_piece, generated_candidates, result>>
    /\ UNCHANGED sttVars

\* _combine_letter_digit_tokens returns (line 540); entry of _merge_square_tokens
CombineDone(self) ==
    /\ pc[self] = "combine"
    /\ ~(i[self] < Len(mapped[self]))
    /\ merged' = [merged EXCEPT ![self] = <<>>]
    /\ i' = [i EXCEPT ![self] = 0]
    /\ pc' = [pc EXCEPT ![self] = "merge"]
    /\ UNCHANGED <<pending, calls_left, raw_text, applied_rules, direct_candidates, cleaned, tokens, mapped,
                   combined, j, promotion_piece, generated_candidates, result>>
    /\ UNCHANGED sttVars

\* one iteration of the loop of _merge_square_tokens
MergeStep(self) ==
    /\ pc[self] = "merge"
    /\ i[self] < Len(combined[self])
    /\ LET r == MergeIter(combined[self], i[self])
       IN  IF Faulty(r.reads, combined[self])
           THEN /\ pc' = [pc EXCEPT ![self] = "raised"]
                /\ UNCHANGED <<merged, i>>
           ELSE /\ merged' = [merged EXCEPT ![self] = @ \o r.emit]
                /\ i' = [i EXCEPT ![self] = r.next]
                /\ UNCHANGED pc
    /\ UNCHANGED <<pending, calls_left, raw_text, applied_rules, direct_candidates, cleaned, tokens, mapped,
                   combined, j, promotion_piece, generated_candidates, result>>
    /\ UNCHANGED sttVars

\* _merge_square_tokens returns (line 541)
MergeDone(self) ==
    /\ pc[self] = "merge"
    /\ ~(i[self] < Len(combined[self]))
    /\ pc' = [pc EXCEPT ![self] = "generate"]
    /\ UNCHANGED <<pending, calls_left, raw_text, applied_rules, direct_candidates, cleaned, tokens, mapped,
                   combined, merged, i, j, promotion_piece, generated_candidates, result>>
    /\ UNCHANGED sttVars

\* line 542
Generate(self) ==
    /\ pc[self] = "generate"
    /\ LET g == generate_candidates(merged[self], applied_rules[self])
       IN  /\ generated_candidates' = [generated_candidates EXCEPT ![self] = g.candidates]
           /\ applied_rules' = [applied_rules EXCEPT ![self] = g.rules]
    /\ pc' = [pc EXCEPT ![self] = "assemble"]
    /\ UNCHANGED <<pending, calls_left, raw_text, direct_candidates, cleaned, tokens, mapped, combined, merged,
                   i, j, promotion_piece, result>>
    /\ UNCHANGED sttVars

\* lines 544-558
Assemble(self) ==
    /\ pc[self] = "assemble"
    /\ result' = [result EXCEPT ![self] =
           <<NormalizationResult(raw_text[self].s, cleaned[self], tokens[self], merged[self],
                                 Combined(direct_candidates[self], generated_candidates[self]),
                                 direct_candidates[self], applied_rules[self])>>]
    /\ pc' = [pc EXCEPT ![self] = "done"]
    /\ UNCHANGED <<pending, calls_left, raw_text, applied_rules, direct_candidates, cleaned, tokens, mapped,
                   combined, merged, i, j, promotion_piece, generated_candidates>>
    /\ UNCHANGED sttVars

Next ==
    \E self \in Callers :
        \/ Call(self)
        \/ Direct(self)
        \/ CleanText(self)
        \/ Tokenize(self)
        \/ MapStep(self)
        \/ PromoScanStep(self)
        \/ PromoEnd(self)
        \/ MapDone(self)
        \/ CombineStep(self)
        \/ CombineDone(self)
        \/ MergeStep(self)
        \/ MergeDone(self)
        \/ Generate(self)
        \/ Assemble(self)

(* ---------------------------------------------------------------------- *)
(* Workloads                                                               *)
(* ---------------------------------------------------------------------- *)

\* phrases of exactly n words, single spaces between them
RECURSIVE PhrasesOf(_, _)
PhrasesOf(words, n) ==
    IF n <= 1 THEN words ELSE {p \o " " \o w : p \in PhrasesOf(words, n - 1), w \in words}

PhrasesUpTo(words, n) == UNION {PhrasesOf(words, k) : k \in 1..n}

\* the longest phrase, in words, of the general workload
MaxWords == 2

\* the number of calls each caller makes in the concurrent workload
MaxCalls == 2

\* words that reach every rule of the mapper and the mergers
CoreWords ==
    {"e", "eight", "queen", "promote", "to", "takes", "check", "side", "b", "shop", "pawn", "o",
     "castle", "n", "12", "kingside"}

\* texts that are notation already, and malformed ones
NotationTexts ==
    {"e4", "E4", "Nf6", "nf6", "e2e4", "E2E4", "e7e8q", "exd5", "e8=Q", "Qxe7+", "b4", "bxc3", "b2b4",
     "o-o", "O-O", "0-0", "o-o-o", "O-O-O", "oo", "OO+", "O-O+", "ooo#", "a12", "a 12", "e 4", " e4 "}

MalformedTexts ==
    {" ", "  ", "\t", "?!", "...", "-", "=", "+", "#", "= =", "x", "zz", "it's", "hello world", "9",
     "promote", "equals the", "e eight promote", "_"}

ExampleTexts ==
    {"knight f six", "queen takes e seven", "e eight promote to queen", "castle king side",
     "castle queen side", "e two e four", "e eight promote to queen check",
     "e seven e eight promote to queen", "promote to queen", "promote e eight queen",
     "e eight check promote to knight", "e seven e eight check promote to knight",
     "e eight equals rook and equals", "e eight mate equals",
     "bishop takes e eight equals queen mate", "o o o", "0 o", "zero o o", "oh o o o"}

\* texts with the whitespace and the letters beyond ASCII
Latin1Texts ==
    {"e4", "e4", "Nf6", " e4", "castle kingside", "OO", "e2e4",
     "écastle", "castleé", "Écastle king", "castle² king", "É4", "ße4", "eÿ4", "e×4", "µ e4"}

CastlePhrases ==
    {"castle king side", "castle king", "castle short", "king castle", "short castle", "castle", "o-o",
     "castle queen side", "castle queen", "castle long", "queen castle", "long castle", "o-o-o"}

GeneralArgs ==
    {NoneArg, StrArg("")}
    \cup {StrArg(t) : t \in PhrasesUpTo(CoreWords, MaxWords) \cup NotationTexts \cup MalformedTexts
                            \cup ExampleTexts \cup CastlePhrases \cup Latin1Texts}

(* ---------------------------------------------------------------------- *)
(* stt.create_transcriber and its cache                                    *)
(* ---------------------------------------------------------------------- *)

MaxSttCalls == 3

\* the backend and model arguments of the calls
Backends == {StrArg(""), StrArg("vosk"), StrArg("VOSK"), StrArg("whisper"), StrArg("nonexistent")}

Models == {NoneArg, StrArg("auto"), StrArg("None")}

\* Python's  x or default  for an optional string
OrDefault(arg, default) == IF Truthy(arg) THEN arg.s ELSE default

\* Python's str() of an optional string, as the f-string of line 435 formats it
py_str(arg) == IF arg.none THEN "None" ELSE arg.s

\* line 434
NormalBackend(backend_arg) == str_lower(OrDefault(backend_arg, "vosk"))

\* line 435
CacheKey(backend, model) == backend \o ":" \o py_str(model)

\* lines 447-449
WhisperHint(model) ==
    IF str_lower(OrDefault(model, "small")) \in {"auto", "default"} THEN "small"
    ELSE str_lower(OrDefault(model, "small"))

NoTranscriber == [id |-> 0, backend_name |-> "", hint |-> ""]

NoFrame == [backend_arg |-> NoneArg, model |-> NoneArg, backend |-> "", cache_key |-> "",
            transcriber |-> NoTranscriber]

\* the record of a call that has ended
Outcome(frame, raised, transcriber) ==
    [backend |-> frame.backend_arg, model |-> frame.model, raised |-> raised, transcriber |-> transcriber]

\* line 418, and no call under way
SttIdle ==
    /\ transcriber_cache = <<>>
    /\ stt_pc = "idle"
    /\ stt_frame = NoFrame
    /\ constructed = 0
    /\ stt_log = <<>>
    /\ stt_left = MaxSttCalls

\* (variant: a cache hit is ignored)
IsCachedNever(cache, key) == FALSE

\* line 438
IsCached(cache, key) == key \in DOMAIN cache

\* (variant: the object is stored under its key before its model is loaded)
CacheOnFailureStored(cache, key) == [k \in DOMAIN cache \cup {key} |-> IF k = key THEN NoTranscriber ELSE cache[k]]

\* lines 443-452: the cache when the creation raises
CacheOnFailure(cache, key) == cache

\* lines 421-435: entry
CreateCall ==
    /\ stt_pc \in {"idle", "returned", "raised"}
    /\ stt_left > 0
    /\ \E backend \in Backends, model \in Models :
           stt_frame' = [backend_arg |-> backend, model |-> model, backend |-> NormalBackend(backend),
                         cache_key |-> CacheKey(NormalBackend(backend), model), transcriber |-> NoTranscriber]
    /\ stt_left' = stt_left - 1
    /\ stt_pc' = "lookup"
    /\ UNCHANGED <<transcriber_cache, constructed, stt_log>>
    /\ UNCHANGED normVars

\* lines 438-439
CacheLookup ==
    /\ stt_pc = "lookup"
    /\ IF IsCached(transcriber_cache, stt_frame.cache_key)
       THEN /\ stt_log' = Append(stt_log, Outcome(stt_frame, FALSE, transcriber_cache[stt_frame.cache_key]))
            /\ stt_pc' = "returned"
       ELSE /\ stt_pc' = "construct"
            /\ UNCHANGED stt_log
    /\ UNCHANGED <<transcriber_cache, stt_frame, constructed, stt_left>>
    /\ UNCHANGED normVars

\* the creation raises STTError
Raise ==
    /\ stt_pc' = "raised"
    /\ stt_log' = Append(stt_log, Outcome(stt_frame, TRUE, NoTranscriber))
    /\ transcriber_cache' = CacheOnFailure(transcriber_cache, stt_frame.cache_key)
    /\ UNCHANGED <<stt_frame, constructed, stt_left>>

\* the object of the given class is built
Built(backend_name, hint) ==
    /\ stt_frame' = [stt_frame EXCEPT !.transcriber =
                         [id |-> constructed + 1, backend_name |-> backend_name, hint |-> hint]]
    /\ constructed' = constructed + 1
    /\ stt_pc' = "store"
    /\ UNCHANGED <<transcriber_cache, stt_log, stt_left>>

\* lines 443-444 and 127-138: the Vosk model loads or it does not
ConstructVosk ==
    /\ stt_pc = "construct"
    /\ stt_frame.backend = "vosk"
    /\ \E loads \in BOOLEAN : IF loads THEN Built("vosk", OrDefault(stt_frame.model, "auto")) ELSE Raise
    /\ UNCHANGED normVars

\* lines 445-450 and 239-286: the Whisper model loads or load_whisper_model raises
ConstructWhisper ==
    /\ stt_pc = "construct"
    /\ stt_frame.backend = "whisper"
    /\ \E loads \in BOOLEAN : IF loads THEN Built("whisper", WhisperHint(stt_frame.model)) ELSE Raise
    /\ UNCHANGED normVars

\* lines 451-452
Unsupported ==
    /\ stt_pc = "construct"
    /\ stt_frame.backend \notin {"vosk", "whisper"}
    /\ Raise
    /\ UNCHANGED normVars

\* lines 455-456
Store ==
    /\ stt_pc = "store"
    /\ transcriber_cache' = [k \in DOMAIN transcriber_cache \cup {stt_frame.cache_key} |->
                                IF k = stt_frame.cache_key THEN stt_frame.transcriber
                                ELSE transcriber_cache[k]]
    /\ stt_log' = Append(stt_log, Outcome(stt_frame, FALSE, stt_frame.transcriber))
    /\ stt_pc' = "returned"
    /\ UNCHANGED <<stt_frame, constructed, stt_left>>
    /\ UNCHANGED normVars

NextStt ==
    \/ CreateCall
    \/ CacheLookup
    \/ ConstructVosk
    \/ ConstructWhisper
    \/ Unsupported
    \/ Store

InitLocals ==
    /\ pc = [c \in Callers |-> "idle"]
    /\ raw_text = [c \in Callers |-> NoneArg]
    /\ applied_rules = [c \in Callers |-> <<>>]
    /\ direct_candidates = [c \in Callers |-> <<>>]
    /\ cleaned = [c \in Callers |-> ""]
    /\ tokens = [c \in Callers |-> <<>>]
    /\ mapped = [c \in Callers |-> <<>>]
    /\ combined = [c \in Callers |-> <<>>]
    /\ merged = [c \in Callers |-> <<>>]
    /\ i = [c \in Callers |-> 0]
    /\ j = [c \in Callers |-> 0]
    /\ promotion_piece = [c \in Callers |-> ""]
    /\ generated_candidates = [c \in Callers |-> <<>>]
    /\ result = [c \in Callers |-> <<>>]
    /\ SttIdle

\* one caller, one call, any text of the given workload
OneCall(args) ==
    /\ \E arg \in args : pending = [c \in Callers |-> IF c = "c1" THEN {arg} ELSE {}]
    /\ calls_left = [c \in Callers |-> IF c = "c1" THEN 1 ELSE 0]
    /\ InitLocals

Init == OneCall(GeneralArgs)

Spec == Init /\ [][Next]_vars

\* spoken moves: piece, file and rank words that are not filler words
PieceWordsSpoken == {w \in DOMAIN PIECE_WORDS : PIECE_WORDS[w] # "" /\ ~str_contains(w, " ")}

FileWordsSpoken == DOMAIN LETTER_WORDS \ FILLER_WORDS

RankWordsSpoken == {w \in DOMAIN NUMBER_WORDS : str_contains(RANKS, NUMBER_WORDS[w])} \ FILLER_WORDS

CaptureWords == DOMAIN ACTION_WORDS

Phrase3(A, B, C) == {a \o " " \o b \o " " \o c : a \in A, b \in B, c \in C}

Phrase4(A, B, C, D) == {a \o " " \o b : a \in Phrase3(A, B, C), b \in D}

\* every piece word with every file word and every rank word
MovePhrases == Phrase3(PieceWordsSpoken, FileWordsSpoken, RankWordsSpoken)

\* every capture word after every piece word and before every file word, every file word before
\* every rank word
CapturePhrases ==
    Phrase4(PieceWordsSpoken, CaptureWords, {"e"}, {"seven"})
    \cup Phrase4({"queen"}, CaptureWords, FileWordsSpoken, {"seven"})
    \cup Phrase4({"queen"}, {"takes"}, FileWordsSpoken, RankWordsSpoken)

InitMoves == OneCall({StrArg(t) : t \in MovePhrases \cup CapturePhrases \cup ExampleTexts})

SpecMoves == InitMoves /\ [][Next]_vars

\* two callers, MaxCalls calls each, in any interleaving
ConcArgs == {StrArg("e4"), StrArg("equals e")}

InitConc ==
    /\ pending = [c \in Callers |-> ConcArgs]
    /\ calls_left = [c \in Callers |-> MaxCalls]
    /\ InitLocals

SpecConc == InitConc /\ [][Next]_vars

(* ---------------------------------------------------------------------- *)
(* Properties                                                              *)
(* ---------------------------------------------------------------------- *)

Done(c) == pc[c] = "done"

\* the result the call of caller c has returned
Res(c) == result[c][1]

NoDuplicates(list) == \A a, b \in 1..Len(list) : a # b => list[a] # list[b]

\* text.split()
NonSpace == [t |-> "set", cs |-> SpaceChars, neg |-> TRUE]

str_split(text) == re_findall(<<Rep(NonSpace, 1)>>, text, FALSE)

LowerFirst(text) == LowerCh(Ch(text, 0)) \o Slice(text, 1, Len(text))

\* C1: the candidates of a result, and its direct candidates, hold no string twice
C1_NoDuplicateCandidates ==
    \A c \in Callers :
        Done(c) => NoDuplicates(Res(c).candidates) /\ NoDuplicates(Res(c).direct_candidates)

\* a call has returned in which the Direct Matcher and the generator produced the same string
C1_Witness ==
    \E c \in Callers :
        /\ Done(c)
        /\ \E a \in 1..Len(direct_candidates[c]) : InList(direct_candidates[c][a], generated_candidates[c])
        /\ Len(Res(c).candidates) >= 1

EmptyResult ==
    [raw_text |-> "", cleaned_text |-> "", tokens |-> <<>>, merged_tokens |-> <<>>, candidates |-> <<>>,
     direct_candidates |-> <<>>, applied_rules |-> <<"empty input">>]

\* C2: a call with "" or None returns the empty result whose trace is exactly <<"empty input">>
C2_EmptyInput ==
    \A c \in Callers :
        Done(c) /\ raw_text[c] \in {NoneArg, StrArg("")} => result[c] = <<EmptyResult>>

\* a call with the empty string has returned
C2_Witness == \E c \in Callers : Done(c) /\ raw_text[c] = StrArg("") /\ calls_left[c] = 0

ResultFields ==
    {"raw_text", "cleaned_text", "tokens", "merged_tokens", "candidates", "direct_candidates",
     "applied_rules"}

\* C3: no call raises, and every returned result has its seven fields
C3_NeverRaises ==
    \A c \in Callers :
        /\ pc[c] # "raised"
        /\ Done(c) => Len(result[c]) = 1 /\ DOMAIN Res(c) = ResultFields

\* a call with a malformed text has returned, without any candidate
C3_Witness ==
    \E c \in Callers :
        /\ Done(c)
        /\ ~raw_text[c].none
        /\ raw_text[c].s \in MalformedTexts
        /\ Res(c).candidates = <<>>

\* C4: a result without candidates has at least one trace entry
C4_EmptyCandidatesExplained ==
    \A c \in Callers : Done(c) /\ Res(c).candidates = <<>> => Len(Res(c).applied_rules) >= 1

\* the locals and the result of caller c
Frame(c) ==
    <<pc[c], raw_text[c], applied_rules[c], direct_candidates[c], cleaned[c], tokens[c], mapped[c],
      combined[c], merged[c], i[c], j[c], promotion_piece[c], generated_candidates[c], result[c]>>

\* C5: calls that have returned for the same text hold the same result, whatever the other caller
\* did meanwhile and whatever was called before, and a step of one call leaves the other call's
\* locals and result alone
C5_Deterministic ==
    [][/\ \A c, d \in Callers :
              pc'[c] = "done" /\ pc'[d] = "done" /\ raw_text'[c] = raw_text'[d] => result'[c] = result'[d]
       /\ \E c \in Callers : \A d \in Callers \ {c} : Frame(d)' = Frame(d)]_vars

\* both callers have returned for the same text, one in its first call, the other in a later call
C5_Witness ==
    /\ Done("c1") /\ Done("c2")
    /\ raw_text["c1"] = raw_text["c2"]
    /\ ~raw_text["c1"].none
    /\ calls_left["c1"] = 0
    /\ calls_left["c2"] = MaxCalls - 1

\* the list a loop reads and the list it builds
LoopInput(c) ==
    IF pc[c] \in {"map", "promo_scan"} THEN tokens[c] ELSE IF pc[c] = "combine" THEN mapped[c] ELSE combined[c]

LoopOutput(c) ==
    IF pc[c] \in {"map", "promo_scan"} THEN mapped[c] ELSE IF pc[c] = "combine" THEN combined[c] ELSE merged[c]

InLoop(c) == pc[c] \in {"map", "promo_scan", "combine", "merge"}

\* C6: every iteration of the three loops moves its cursor forward, the promotion scan moves j
\* forward until it breaks, no cursor passes the end of its list, and a loop has built no more
\* tokens than it has consumed
C6_CursorAdvances ==
    [][\A c \in Callers :
          /\ pc[c] = pc'[c] /\ pc[c] \in {"map", "combine", "merge"} => i'[c] > i[c]
          /\ pc[c] = "map" /\ pc'[c] = "promo_scan" => j'[c] > i[c] /\ i'[c] = i[c]
          /\ pc[c] = "promo_scan" /\ pc'[c] = "promo_scan" =>
                 i'[c] = i[c] /\ (j'[c] > j[c] \/ promotion_piece'[c] # "")
          /\ pc[c] = "promo_scan" /\ pc'[c] = "map" => i'[c] > i[c]
          /\ InLoop(c)' => /\ i'[c] <= Len(LoopInput(c)')
                           /\ Len(LoopOutput(c)') <= i'[c]
          /\ pc'[c] = "promo_scan" => j'[c] <= Len(tokens'[c])
          /\ pc'[c] \in {"generate", "assemble", "done"} /\ Len(result'[c]) = 0 =>
                 /\ Len(mapped'[c]) <= Len(tokens'[c])
                 /\ Len(combined'[c]) <= Len(mapped'[c])
                 /\ Len(merged'[c]) <= Len(combined'[c])]_vars

\* a call has returned after a promotion scan that skipped tokens, and after a merge
C6_Witness ==
    \E c \in Callers :
        /\ Done(c)
        /\ j[c] > 1
        /\ Len(tokens[c]) >= 3
        /\ Len(merged[c]) < Len(mapped[c])

\* C7: the candidates are the direct candidates followed by the generated candidates that are not
\* among them
C7_DirectThenGenerated ==
    \A c \in Callers :
        Done(c) =>
            /\ Res(c).candidates = direct_candidates[c]
                                   \o SelectSeq(generated_candidates[c],
                                                LAMBDA x : ~InList(x, direct_candidates[c]))
            /\ Res(c).direct_candidates = SubSeq(Res(c).candidates, 1, Len(Res(c).direct_candidates))

\* a call has returned with a direct candidate and a generated candidate that is new
C7_Witness ==
    \E c \in Callers :
        /\ Done(c)
        /\ Len(direct_candidates[c]) >= 1
        /\ \E a \in 1..Len(generated_candidates[c]) :
               ~InList(generated_candidates[c][a], direct_candidates[c])
        /\ Len(Res(c).candidates) > Len(direct_candidates[c])

\* the words of the text of caller c
Spoken(c) == IF raw_text[c].none THEN <<>> ELSE str_split(raw_text[c].s)

\* C8: "<piece> <file> <rank>" gives <PieceLetter><file><rank> first and its lowercase-first twin
\* too; "<piece> <capture> <file> <rank>" gives <PieceLetter>x<file><rank> first
C8_SpokenPieceMove ==
    \A c \in Callers :
        Done(c) =>
            LET w == Spoken(c)
                cands == Res(c).candidates
            IN  /\ Len(w) = 3 /\ w[1] \in PieceWordsSpoken /\ w[2] \in FileWordsSpoken
                   /\ w[3] \in RankWordsSpoken =>
                       LET san == PIECE_WORDS[w[1]] \o LETTER_WORDS[w[2]] \o NUMBER_WORDS[w[3]]
                       IN  Len(cands) >= 1 /\ cands[1] = san /\ InList(LowerFirst(san), cands)
                /\ Len(w) = 4 /\ w[1] \in PieceWordsSpoken /\ w[2] \in CaptureWords
                   /\ w[3] \in FileWordsSpoken /\ w[4] \in RankWordsSpoken =>
                       Len(cands) >= 1
                       /\ cands[1] = PIECE_WORDS[w[1]] \o "x" \o LETTER_WORDS[w[3]] \o NUMBER_WORDS[w[4]]
                /\ raw_text[c] = StrArg("knight f six") => cands[1] = "Nf6" /\ InList("nf6", cands)
                /\ raw_text[c] = StrArg("queen takes e seven") => cands[1] = "Qxe7"

\* the call for a spoken king move with a homophone file and rank has returned
C8_Witness ==
    \E c \in Callers :
        /\ Done(c)
        /\ raw_text[c] = StrArg("king sea six")
        /\ Res(c).candidates = <<"Kc6", "kc6">>

\* the base string the claim describes: the promotion tokens right after the last square token,
\* or at the end when there is no square token
ExpectedBase(merged_tokens) ==
    LET formatted == [k \in 1..Len(merged_tokens) |-> format_token(merged_tokens[k])]
        promos == SelectSeq(formatted, LAMBDA t : startswith(t, "="))
        others == SelectSeq(formatted, LAMBDA t : ~startswith(t, "="))
        square_at == {k \in 1..Len(others) : IsSquare(others[k])}
        last == IF square_at = {} THEN Len(others) ELSE Max(square_at)
    IN  join(SubSeq(others, 1, last)) \o join(promos) \o join(SubSeq(others, last + 1, Len(others)))

\* C9: the first generated candidate is the base string with every promotion token right after the
\* last square token, in order (at the end when no token is a square)
C9_PromotionAfterLastSquare ==
    \A c \in Callers :
        pc[c] \in {"assemble", "done"} /\ Len(merged[c]) > 0 =>
            /\ Len(generated_candidates[c]) >= 1
            /\ generated_candidates[c][1] = ExpectedBase(merged[c])
            /\ Done(c) /\ raw_text[c] = StrArg("e eight promote to queen") =>
                   InList("e8=Q", Res(c).candidates)

\* a promotion has been moved back over a check mark to stand right after the second of two squares
C9_Witness ==
    \E c \in Callers :
        /\ Done(c)
        /\ merged[c] = <<"e7", "e8", "+", "=N">>
        /\ generated_candidates[c][1] = "e7e8=N+"

KingSidePhrases ==
    {"castle king side", "castle king", "castle short", "king castle", "short castle", "castle", "o-o"}

QueenSidePhrases ==
    {"castle queen side", "castle queen", "castle long", "queen castle", "long castle", "o-o-o"}

\* C10: each spoken castling phrase yields the castle glyph of its side as a candidate
C10_CastlingPhrases ==
    \A c \in Callers :
        Done(c) /\ ~raw_text[c].none =>
            /\ raw_text[c].s \in KingSidePhrases => InList("O-O", Res(c).candidates)
            /\ raw_text[c].s \in QueenSidePhrases => InList("O-O-O", Res(c).candidates)

\* a spoken queen-side phrase has been rewritten by the cleaner and merged into the glyph
C10_Witness ==
    \E c \in Callers :
        /\ Done(c)
        /\ raw_text[c] = StrArg("long castle")
        /\ cleaned[c] = "o o o"
        /\ Res(c).candidates = <<"O-O-O">>

(* ---------------------------------------------------------------------- *)
(* Spoken coordinate moves                                                 *)
(* ---------------------------------------------------------------------- *)

\* every file word before every rank word, every rank word before every file word, in both squares
SquarePairPhrases ==
    Phrase4(FileWordsSpoken, RankWordsSpoken, {"e"}, {"four"})
    \cup Phrase4({"e"}, RankWordsSpoken, FileWordsSpoken, {"four"})
    \cup Phrase4({"e"}, {"two"}, FileWordsSpoken, RankWordsSpoken)

InitSquares == OneCall({StrArg(t) : t \in SquarePairPhrases \cup ExampleTexts})

SpecSquares == InitSquares /\ [][Next]_vars

\* the number of times value stands in list
Count(list, value) == Cardinality({k \in 1..Len(list) : list[k] = value})

\* the coordinate string of two spoken squares
Coordinates(w) == LETTER_WORDS[w[1]] \o NUMBER_WORDS[w[2]] \o LETTER_WORDS[w[3]] \o NUMBER_WORDS[w[4]]

\* C11: "<file> <rank> <file> <rank>" gives the coordinate string of the two squares exactly once,
\* in the candidates and already in the list the Candidate Generator returns
C11_CoordinateOnce ==
    \A c \in Callers :
        Done(c) =>
            LET w == Spoken(c)
            IN  /\ Len(w) = 4 /\ w[1] \in FileWordsSpoken /\ w[2] \in RankWordsSpoken
                   /\ w[3] \in FileWordsSpoken /\ w[4] \in RankWordsSpoken =>
                       /\ Count(Res(c).candidates, Coordinates(w)) = 1
                       /\ Count(generated_candidates[c], Coordinates(w)) = 1
                /\ raw_text[c] = StrArg("e two e four") => Count(Res(c).candidates, "e2e4") = 1

\* a call for two spoken squares has returned: the base string and the synthesized coordinate
\* string are the same string, and it is the only candidate
C11_Witness ==
    \E c \in Callers :
        /\ Done(c)
        /\ raw_text[c] = StrArg("bee won e four")
        /\ merged[c] = <<"b1", "e4">>
        /\ InList("generated UCI candidate 'b1e4'", Res(c).applied_rules)
        /\ Res(c).candidates = <<"b1e4">>

(* ---------------------------------------------------------------------- *)
(* Texts that are notation already                                         *)
(* ---------------------------------------------------------------------- *)

\* a destination square written in lowercase
LowerSquares == {f \o r : f \in CharSet(FILES), r \in CharSet(RANKS)}

\* castling written with two or three segments, with and without hyphens and check marks
CastleSegment == {"o", "O", "0"}

CastleTexts ==
    {a \o h \o b \o s : a \in {"o", "O", "0"}, h \in {"", "-"}, b \in CastleSegment, s \in {"", "+", "#"}}
    \cup {a \o h \o b \o g \o "o" \o s :
              a \in CastleSegment, h \in {"", "-"}, b \in {"O", "0"}, g \in {"", "-"}, s \in {"", "+", "#"}}

\* piece moves and captures in either case, with and without marks
SanTexts ==
    {p \o x \o sq \o s :
         p \in {"", "K", "Q", "R", "B", "N", "k", "q", "r", "b", "n"}, x \in {"", "x"},
         sq \in {"e4", "b5", "F6"}, s \in {"", "+", "=Q"}}

\* coordinate moves in either case, with and without promotion letter
UciTexts ==
    {a \o b \o p : a \in {"e2", "b2", "E7", "B7", "n1"}, b \in {"e4", "B4", "b8", "E8"},
                   p \in {"", "q", "Q", "n"}}

\* texts around the grammars: spaced, padded, with a word too many, or no notation at all
NearTexts ==
    {" Nf6 ", "N f 6", "\te2 e4\n", "b 2 B 4", "Nf6 and", "e2e4x", "xe2e4", "e9", "i4", "e44", "hello",
     "o-o-o-o", "o", "o--o", "Nf6+#", "e2e4qq", "=Q", "x", "O - O", "0 0 0"}

NotationArgs ==
    {StrArg(t) : t \in LowerSquares \cup CastleTexts \cup SanTexts \cup UciTexts \cup NearTexts
                       \cup ExampleTexts}

InitNotation == OneCall(NotationArgs)

SpecNotation == InitNotation /\ [][Next]_vars

\* the text of caller c without its whitespace, as the Direct Matcher sees it
Compact(c) == re_sub(<<Spaces1>>, "", str_strip(raw_text[c].s))

\* C12: a text that is a lowercase destination square has that square as its only candidate
C12_LowercaseSquareAlone ==
    \A c \in Callers :
        Done(c) /\ ~raw_text[c].none /\ raw_text[c].s \in LowerSquares =>
            Res(c).candidates = <<raw_text[c].s>>

\* the number of O/0 segments of a castling text
CastleSegments(compact) ==
    Cardinality({k \in 0..(Len(compact) - 1) : Ch(compact, k) \in CastleSegment})

\* C14: a text that matches the castling grammar has the one direct candidate "O-O" when it has
\* two segments and "O-O-O" when it has three, with or without hyphens and check marks
C14_CastleCanonical ==
    \A c \in Callers :
        Done(c) /\ Truthy(raw_text[c]) /\ re_match(CASTLE_SAN_PATTERN, Compact(c), TRUE) =>
            Res(c).direct_candidates = <<IF CastleSegments(Compact(c)) = 2 THEN "O-O" ELSE "O-O-O">>

\* C15: a text that matches the SAN grammar is a direct candidate as it stands, and one that begins
\* with an uppercase piece letter has its lowercase-first twin among the direct candidates too
C15_SanVerbatimAndLowercase ==
    \A c \in Callers :
        Done(c) /\ Truthy(raw_text[c]) /\ re_match(SAN_MOVE_PATTERN, Compact(c), TRUE) =>
            /\ InList(Compact(c), Res(c).direct_candidates)
            /\ Ch(Compact(c), 0) \in {"K", "Q", "R", "B", "N"} =>
                   InList(LowerFirst(Compact(c)), Res(c).direct_candidates)

\* C16: no grammar matching the whole text gives no direct candidate; a castling match comes
\* first; a text matching SAN and UCI gives the text as it stands first and its lowercase form
\* second (one candidate when they are the same string), without duplicates
C16_DirectGrammars ==
    \A c \in Callers :
        Done(c) /\ Truthy(raw_text[c]) =>
            LET compact == Compact(c)
                castle == re_match(CASTLE_SAN_PATTERN, compact, TRUE)
                san == re_match(SAN_MOVE_PATTERN, compact, TRUE)
                uci == re_match(UCI_MOVE_PATTERN, compact, TRUE)
                direct == Res(c).direct_candidates
            IN  /\ ~castle /\ ~san /\ ~uci => direct = <<>>
                /\ castle \/ san \/ uci => Len(direct) >= 1 /\ NoDuplicates(direct)
                /\ san /\ uci =>
                       /\ direct[1] = compact
                       /\ InList(str_lower(compact), direct)
                       /\ str_lower(compact) # compact => Len(direct) >= 2 /\ direct[2] = str_lower(compact)
                /\ uci /\ ~san => direct = <<str_lower(compact)>>

(* ---------------------------------------------------------------------- *)
(* Token sequences for the merge passes                                    *)
(* ---------------------------------------------------------------------- *)

\* the longest phrase, in words, of the merge workload
MaxMergeWords == 4

\* words whose tokens the two passes merge, or nearly merge
MergeWords == {"e", "o", "zero", "four", "12"}

\* texts with the letter b, which the second pass reads as a piece letter
MergeTexts == {"b four", "n b four", "b 12 four", "e b four", "b e four"}

InitMerge ==
    OneCall({StrArg(t) : t \in PhrasesUpTo(MergeWords, MaxMergeWords) \cup ExampleTexts \cup MergeTexts})

SpecMerge == InitMerge /\ [][Next]_vars

\* C13: the list _combine_letter_digit_tokens built from the mapped tokens is left unchanged by
\* _combine_letter_digit_tokens, and the list _merge_square_tokens built from that list is left
\* unchanged by _merge_square_tokens
C13_MergePassesIdempotent ==
    \A c \in Callers :
        /\ pc[c] \in {"merge", "generate", "assemble", "done"} =>
               /\ combined[c] = combine_letter_digit_tokens(mapped[c])
               /\ combine_letter_digit_tokens(combined[c]) = combined[c]
        /\ pc[c] \in {"generate", "assemble", "done"} =>
               /\ merged[c] = merge_square_tokens(combined[c])
               /\ merge_square_tokens(merged[c]) = merged[c]

\* a call has returned in which the first pass merged a castle and the second pass merged a
\* letter with a number token the first pass had left alone
C13_Witness ==
    \E c \in Callers :
        /\ Done(c)
        /\ mapped[c] = <<"e", "12", "o", "o">>
        /\ combined[c] = <<"e", "12", "O-O">>
        /\ merged[c] = <<"e12", "O-O">>

(* ---------------------------------------------------------------------- *)
(* Rule order of the Token Mapper                                          *)
(* ---------------------------------------------------------------------- *)

\* words of several tables, the heads and tails of the two compounds, and plain words
MapperWords ==
    {"to", "a", "b", "bee", "shop", "king", "queen", "side", "sigh", "two", "e", "knight", "kingside",
     "promote", "zz"}

InitMapper == OneCall({StrArg(t) : t \in PhrasesUpTo(MapperWords, MaxWords)})

SpecMapper == InitMapper /\ [][Next]_vars

\* the step of caller c leaves the mapper at its loop, having appended emit and moved the cursor by step
Handled(c, emit, step) ==
    /\ pc'[c] = "map"
    /\ mapped'[c] = mapped[c] \o emit
    /\ i'[c] = i[c] + step

\* the outcome of the first rule, in the order of the code, that matches the token at the cursor
FirstRuleOutcome(c, token, next_token) ==
    IF token \in FILLER_WORDS THEN Handled(c, <<>>, 1)
    ELSE IF token \in PROMOTION_CUES
    THEN pc'[c] = "promo_scan" /\ mapped'[c] = mapped[c] /\ i'[c] = i[c]
    ELSE IF token \in DOMAIN CHECK_WORDS THEN Handled(c, <<CHECK_WORDS[token]>>, 1)
    ELSE IF token \in DOMAIN ACTION_WORDS THEN Handled(c, <<"x">>, 1)
    ELSE IF token \in {"b", "be", "bee"} /\ next_token \in SHOP_VARIANTS THEN Handled(c, <<"B">>, 2)
    ELSE IF token \in {"king", "queen"} /\ next_token \in SIDE_VARIANTS
    THEN Handled(c, <<token \o "side">>, 2)
    ELSE IF token \in {"kingside", "shortside"} THEN Handled(c, <<"O-O">>, 1)
    ELSE IF token \in {"queenside", "longside"} THEN Handled(c, <<"O-O-O">>, 1)
    ELSE IF token \in DOMAIN PIECE_WORDS
    THEN Handled(c, IF PIECE_WORDS[token] = "" THEN <<>> ELSE <<str_upper(PIECE_WORDS[token])>>, 1)
    ELSE IF token \in DOMAIN NUMBER_WORDS THEN Handled(c, <<NUMBER_WORDS[token]>>, 1)
    ELSE IF token \in DOMAIN LETTER_WORDS THEN Handled(c, <<LETTER_WORDS[token]>>, 1)
    ELSE Handled(c, <<token>>, 1)

\* C17: every step of the mapper's loop does what the first matching rule says, in the order
\* filler, promotion cue, check, capture, b + shop, king/queen + side, piece, number, letter,
\* pass-through; a compound consumes both its tokens and emits one token
C17_FirstMatchingRule ==
    [][\A c \in Callers :
          pc[c] = "map" /\ i[c] < Len(tokens[c]) /\ Frame(c)' # Frame(c) =>
              FirstRuleOutcome(c, tokens[c][i[c] + 1],
                               IF i[c] + 1 < Len(tokens[c]) THEN tokens[c][i[c] + 2] ELSE NoToken)]_vars

\* a call has returned in which a queen before a side word was consumed with it, as one token
C17_Witness ==
    \E c \in Callers :
        /\ Done(c)
        /\ tokens[c] = <<"queen", "sigh">>
        /\ mapped[c] = <<"queenside">>
        /\ Res(c).applied_rules = <<"queen side collapsed">>

\* C18: once the mapper has collapsed king or queen and a side word into "kingside" or
\* "queenside", the merged tokens and the candidates of the result hold the castle glyph of that side
C18_SideCompoundToCastle ==
    \A c \in Callers :
        Done(c) =>
            /\ InList("kingside", mapped[c]) =>
                   InList("O-O", Res(c).merged_tokens) /\ InList("O-O", Res(c).candidates)
            /\ InList("queenside", mapped[c]) =>
                   InList("O-O-O", Res(c).merged_tokens) /\ InList("O-O-O", Res(c).candidates)

(* ---------------------------------------------------------------------- *)
(* Promotion cues                                                          *)
(* ---------------------------------------------------------------------- *)

\* a promotion-piece word or a piece word other than the pawn words
IsPromotionTarget(token) ==
    token \in DOMAIN PROMOTION_PIECES \/ (token \in DOMAIN PIECE_WORDS /\ PIECE_WORDS[token] # "")

\* the piece letter of such a word
TargetLetter(token) ==
    str_upper(IF token \in DOMAIN PROMOTION_PIECES THEN PROMOTION_PIECES[token] ELSE PIECE_WORDS[token])

\* the 0-based positions after the cue at i that hold such a word
TargetsAfter(toks, cue) == {k \in (cue + 1)..(Len(toks) - 1) : IsPromotionTarget(toks[k + 1])}

\* C19: the promotion rule at a cue either emits the one token "=" with the letter of the first
\* piece word after the cue and moves the cursor just past that word, or, when no piece word
\* follows, emits a bare "=" and moves the cursor by one
C19_PromotionCue ==
    [][\A c \in Callers :
          pc[c] = "promo_scan" /\ pc'[c] = "map" =>
              LET targets == TargetsAfter(tokens[c], i[c])
              IN  IF targets # {}
                  THEN /\ mapped'[c] = Append(mapped[c], "=" \o TargetLetter(tokens[c][Min(targets) + 1]))
                       /\ i'[c] = Min(targets) + 1
                  ELSE /\ mapped'[c] = Append(mapped[c], "=")
                       /\ i'[c] = i[c] + 1]_vars

\* a call has returned in which the scan passed two tokens that are no fillers before it met
\* the piece word
C19_Witness ==
    \E c \in Callers :
        /\ Done(c)
        /\ tokens[c] = <<"promote", "e", "eight", "queen">>
        /\ mapped[c] = <<"=Q">>
        /\ Res(c).candidates = <<"=Q">>

(* ---------------------------------------------------------------------- *)
(* The rule trace                                                          *)
(* ---------------------------------------------------------------------- *)

HasPrefix(entry, prefix) == Len(entry) >= Len(prefix) /\ Slice(entry, 0, Len(prefix)) = prefix

\* the rule names of the two replacement tables, in the order lines 533-534 apply them
PhraseRuleNames ==
    [k \in 1..(Len(MULTIWORD_REPLACEMENTS) + Len(CASTLING_PATTERNS)) |->
        IF k <= Len(MULTIWORD_REPLACEMENTS) THEN MULTIWORD_REPLACEMENTS[k][3]
        ELSE CASTLING_PATTERNS[k - Len(MULTIWORD_REPLACEMENTS)][3]]

\* the stage an entry of the trace comes from: 1 Direct Matcher, 2 phrase replacement,
\* 3 Token Mapper, 4 Candidate Generator
EntryStage(entry) ==
    IF HasPrefix(entry, "direct ") THEN 1
    ELSE IF InList(entry, PhraseRuleNames) THEN 2
    ELSE IF HasPrefix(entry, "generated ") THEN 4
    ELSE 3

\* the entries of each stage come after those of the stages before it
StagesInOrder(rules) == \A a, b \in 1..Len(rules) : a < b => EntryStage(rules[a]) <= EntryStage(rules[b])

\* the number of grammars of the Direct Matcher the text without its whitespace matches
DirectBranches(compact) ==
    (IF re_match(CASTLE_SAN_PATTERN, compact, TRUE) THEN 1 ELSE 0)
    + (IF re_match(SAN_MOVE_PATTERN, compact, TRUE) THEN 1 ELSE 0)
    + (IF re_match(UCI_MOVE_PATTERN, compact, TRUE) THEN 1 ELSE 0)

\* the token is in none of the tables of the Token Mapper
PassThrough(token) ==
    token \notin FILLER_WORDS \cup PROMOTION_CUES \cup DOMAIN CHECK_WORDS \cup DOMAIN ACTION_WORDS
                 \cup {"kingside", "shortside", "queenside", "longside"} \cup DOMAIN PIECE_WORDS
                 \cup DOMAIN NUMBER_WORDS \cup DOMAIN LETTER_WORDS

\* what a step of caller c at its position may append to the trace
StageEntries(c, added) ==
    CASE pc[c] = "direct" ->
             /\ Len(added) = DirectBranches(Compact(c))
             /\ \A k \in 1..Len(added) : EntryStage(added[k]) = 1
      [] pc[c] = "clean" ->
             /\ \A k \in 1..Len(added) : EntryStage(added[k]) = 2
             /\ added = SelectSeq(PhraseRuleNames, LAMBDA n : InList(n, added))
      [] pc[c] = "map" ->
             /\ Len(added) = IF pc'[c] = "map" /\ ~PassThrough(Item(tokens[c], i[c])) THEN 1 ELSE 0
             /\ \A k \in 1..Len(added) : EntryStage(added[k]) = 3
      [] pc[c] = "promo_scan" ->
             /\ Len(added) = IF pc'[c] = "map" THEN 1 ELSE 0
             /\ \A k \in 1..Len(added) : EntryStage(added[k]) = 3
      [] pc[c] = "generate" -> \A k \in 1..Len(added) : EntryStage(added[k]) = 4
      [] OTHER -> added = <<>>

\* texts whose traces hold entries of several stages
TraceTexts ==
    {"e 2 e 4", "night e2 to e4", "b sharp e2 e4", "castle king side", "promote e queen",
     "rock takes e four check", "b2 b4", "O-O", "Nf3", "knite quin castle"}

TraceWords == {"night", "castle", "to", "e2", "e4", "b2b4", "promote", "queen", "e", "four", "o", "takes"}

InitTrace == OneCall({StrArg(t) : t \in TraceTexts \cup PhrasesUpTo(TraceWords, MaxWords)})

SpecTrace == InitTrace /\ [][Next]_vars

\* C20: within a call every step leaves the earlier entries of applied_rules in place and only
\* appends: the Direct Matcher one entry per grammar that matched, the cleaner the names of the
\* replacements that fired in table order, the Token Mapper one entry per rule firing and none
\* for a pass-through, the Candidate Generator its own entries; the entries stay grouped by
\* stage in that order, and the result carries the list as it stands
C20_TraceAppendOnly ==
    [][\A c \in Callers :
          pc[c] \notin {"idle", "done"} /\ pc'[c] # "raised" =>
              /\ Len(applied_rules[c]) <= Len(applied_rules'[c])
              /\ SubSeq(applied_rules'[c], 1, Len(applied_rules[c])) = applied_rules[c]
              /\ StageEntries(c, SubSeq(applied_rules'[c], Len(applied_rules[c]) + 1, Len(applied_rules'[c])))
              /\ StagesInOrder(applied_rules'[c])
              /\ (pc'[c] = "done" => result'[c][1].applied_rules = applied_rules'[c])]_vars

\* a call has returned whose trace holds the entries of the Direct Matcher, of the Token Mapper
\* and of the Candidate Generator, in that order
C20_Witness ==
    \E c \in Callers :
        /\ Done(c)
        /\ raw_text[c] = StrArg("e 2 e 4")
        /\ Res(c).applied_rules = <<"direct SAN candidate 'e2e4'", "direct UCI candidate 'e2e4'",
                                    "letter word 'e' -> 'e'", "letter word 'e' -> 'e'",
                                    "generated UCI candidate 'e2e4'">>

(* ---------------------------------------------------------------------- *)
(* Candidate Generator: the strings it emits                               *)
(* ---------------------------------------------------------------------- *)

\* line 486: the base string the generator builds from the merged tokens of caller c
Base(c) == join(Spliced(merged[c]).non_promo_tokens)

\* the generator of caller c has run on a sequence that is not empty
Generated(c) == pc[c] \in {"assemble", "done"} /\ Truthy(raw_text[c]) /\ Len(merged[c]) > 0

\* C21: a base string that begins with an uppercase letter other than the O of a castle glyph
\* comes with its twin whose first letter is lowercased, a base of one character included
C21_LowercaseFirstVariant ==
    \A c \in Callers :
        Generated(c) /\ Base(c) # "" /\ isupper(Ch(Base(c), 0)) /\ Ch(Base(c), 0) # "O" =>
            InList(LowerFirst(Base(c)), generated_candidates[c])

\* lines 498-505: the coordinate candidates of caller c (none with fewer than two squares)
Coordinate(c) ==
    LET sp == Spliced(merged[c])
    IN  IF Len(Squares(sp.non_promo_tokens)) >= 2
        THEN {UciCandidate(Squares(sp.non_promo_tokens), sp.promotion_tokens)}
        ELSE {}

\* C22: the generator emits only the base string, its twin with the first letter lowercased and
\* the coordinate candidate; the closing lowercase step adds no string that differs from the base
C22_NothingBeyondThree ==
    \A c \in Callers :
        Generated(c) =>
            \A k \in 1..Len(generated_candidates[c]) :
                generated_candidates[c][k] \in {Base(c), LowerFirst(Base(c))} \cup Coordinate(c)

\* the square tokens among the merged tokens of caller c, in order
MergedSquares(c) == SelectSeq(merged[c], IsSquare)

\* the promotion tokens among the merged tokens of caller c that carry a piece letter
PiecePromotions(c) == SelectSeq(merged[c], LAMBDA t : startswith(t, "=") /\ Len(t) = 2)

\* the coordinate string the claim describes
ExpectedCoordinate(c) ==
    str_lower(MergedSquares(c)[1]) \o str_lower(MergedSquares(c)[2])
    \o (IF Len(PiecePromotions(c)) = 0 THEN "" ELSE str_lower(Slice(PiecePromotions(c)[1], 1, 2)))

IsUciEntry(entry) == HasPrefix(entry, "generated UCI candidate")

\* C23: with two or more square tokens among the merged tokens the generated candidates hold the
\* first two squares in order, lowercased, followed by the lowercased letter of the first
\* promotion token with a piece, and the trace ends with the entry for it; with fewer than two
\* squares no coordinate entry is written and no candidate beyond the base and its variants
C23_CoordinateSynthesis ==
    \A c \in Callers :
        Generated(c) =>
            IF Len(MergedSquares(c)) >= 2
            THEN /\ InList(ExpectedCoordinate(c), generated_candidates[c])
                 /\ applied_rules[c] # <<>>
                 /\ applied_rules[c][Len(applied_rules[c])]
                        = "generated UCI candidate '" \o ExpectedCoordinate(c) \o "'"
            ELSE /\ \A k \in 1..Len(applied_rules[c]) : ~IsUciEntry(applied_rules[c][k])
                 /\ \A k \in 1..Len(generated_candidates[c]) :
                        generated_candidates[c][k] \in {Base(c), LowerFirst(Base(c)), str_lower(Base(c))}

\* a call has returned for two squares and a promotion with a piece
C23_Witness ==
    \E c \in Callers :
        /\ Done(c)
        /\ merged[c] = <<"e7", "e8", "=Q">>
        /\ Res(c).candidates = <<"e7e8=Q", "e7e8q", "e7e8=q">>
        /\ InList("generated UCI candidate 'e7e8q'", Res(c).applied_rules)

(* ---------------------------------------------------------------------- *)
(* The merge passes: what they fuse                                        *)
(* ---------------------------------------------------------------------- *)

\* a step of a merge pass over the sequence input at cursor i[c] that fuses a file letter with
\* the token after it
Fuses(c, input) == Item(input, i[c]) \in Range(LETTER_WORDS) /\ i'[c] = i[c] + 2

\* C24: every token a merge pass creates from a file letter and the token after it is a square,
\* one file letter a-h and one rank digit 1-8
C24_FusedTokenIsSquare ==
    [][\A c \in Callers :
          /\ pc[c] = "combine" /\ Fuses(c, mapped[c]) =>
                 IsSquare(combined'[c][Len(combined'[c])])
          /\ pc[c] = "merge" /\ Fuses(c, combined[c]) =>
                 IsSquare(merged'[c][Len(merged'[c])])]_vars

\* C25: after both merge passes no file letter a-h stands immediately before a rank digit 1-8
\* in merged_tokens; every such pair of the mapper's output is one square token
C25_NoUnfusedPair ==
    \A c \in Callers :
        pc[c] \in {"generate", "assemble", "done"} /\ Truthy(raw_text[c]) =>
            \A k \in 1..(Len(merged[c]) - 1) :
                ~(merged[c][k] \in CharSet(FILES) /\ merged[c][k + 1] \in CharSet(RANKS))

\* a call has returned in which the mapper's output held a file letter before a rank digit,
\* after a letter that stays alone and before a digit that stays alone
C25_Witness ==
    \E c \in Callers :
        /\ Done(c)
        /\ mapped[c] = <<"e", "e", "4", "4">>
        /\ merged[c] = <<"e", "e4", "4">>

(* ---------------------------------------------------------------------- *)
(* The transcriber cache                                                   *)
(* ---------------------------------------------------------------------- *)

\* no call of normalize_transcription, MaxSttCalls calls of create_transcriber
InitStt ==
    /\ pending = [c \in Callers |-> {}]
    /\ calls_left = [c \in Callers |-> 0]
    /\ InitLocals

SpecStt == InitStt /\ [][NextStt]_vars

\* the calls that returned a transcriber, as positions of the log
Returned == {k \in 1..Len(stt_log) : ~stt_log[k].raised}

\* the pair the claim keys the cache by: the backend argument lowercased, and the model argument
ArgumentPair(entry) ==
    <<IF entry.backend.none THEN entry.backend ELSE StrArg(str_lower(entry.backend.s)), entry.model>>

\* the string the cache is keyed by: the backend, 'vosk' for an absent or empty one, lowercased,
\* a colon, and the model as Python prints it
KeyString(entry) ==
    str_lower(IF entry.backend.none \/ entry.backend.s = "" THEN "vosk" ELSE entry.backend.s)
    \o ":" \o (IF entry.model.none THEN "None" ELSE entry.model.s)

\* C26 as stated: calls with the same lowercased backend and the same model return the
\* identical instance, calls that differ in the backend or in the model return different ones
C26_CacheByBackendAndModel ==
    \A a, b \in Returned :
        (ArgumentPair(stt_log[a]) = ArgumentPair(stt_log[b]))
            <=> (stt_log[a].transcriber = stt_log[b].transcriber)

\* C26, amended: the cache maps each key string to the instance the first successful call with
\* that key string returned; a later call with the same key string returns that instance and
\* constructs nothing, a call with another key string returns another instance
C26_CacheByKeyString ==
    /\ \A a, b \in Returned :
           (KeyString(stt_log[a]) = KeyString(stt_log[b]))
               <=> (stt_log[a].transcriber = stt_log[b].transcriber)
    /\ DOMAIN transcriber_cache = {KeyString(stt_log[k]) : k \in Returned}
    /\ \A k \in Returned :
           transcriber_cache[KeyString(stt_log[k])] = stt_log[k].transcriber
    /\ constructed = Cardinality(DOMAIN transcriber_cache) + (IF stt_pc = "store" THEN 1 ELSE 0)

\* three calls have returned: the second one, with the backend in capitals, got the instance
\* of the first, the third one with another backend got a new one
C26_Witness ==
    /\ Len(stt_log) = 3
    /\ stt_log[1] = [backend |-> StrArg("vosk"), model |-> StrArg("auto"), raised |-> FALSE,
                     transcriber |-> [id |-> 1, backend_name |-> "vosk", hint |-> "auto"]]
    /\ stt_log[2] = [backend |-> StrArg("VOSK"), model |-> StrArg("auto"), raised |-> FALSE,
                     transcriber |-> [id |-> 1, backend_name |-> "vosk", hint |-> "auto"]]
    /\ stt_log[3] = [backend |-> StrArg("whisper"), model |-> StrArg("auto"), raised |-> FALSE,
                     transcriber |-> [id |-> 2, backend_name |-> "whisper", hint |-> "small"]]
    /\ constructed = 2

\* the step ends the call under way
CallEnds == stt_pc \in {"lookup", "construct", "store"} /\ stt_pc' \in {"returned", "raised"}

\* the backend argument, lowercased, is neither 'vosk' nor 'whisper'
OtherBackend(backend_arg) == backend_arg.none \/ str_lower(backend_arg.s) \notin {"vosk", "whisper"}

\* the same for the backend after an absent or empty one is replaced by 'vosk'
OtherBackendAfterDefault(backend_arg) ==
    ~(backend_arg.none \/ backend_arg.s = "") /\ str_lower(backend_arg.s) \notin {"vosk", "whisper"}

\* C27 as stated: a call whose backend, lowercased, is neither 'vosk' nor 'whisper' raises
\* STTError, and a call that raises leaves the cache as it was
C27_OtherBackendRaises ==
    [][CallEnds =>
           /\ OtherBackend(stt_frame.backend_arg) => stt_pc' = "raised"
           /\ stt_pc' = "raised" => transcriber_cache' = transcriber_cache]_vars

\* C27, amended: a call whose backend, with 'vosk' in place of an absent or empty one and
\* lowercased, is neither 'vosk' nor 'whisper' raises STTError unless its key is cached (which
\* no such key is); a call that raises, for the backend or for a model that does not load,
\* leaves the cache as it was and its key out of it; the cache holds constructed instances
\* only; and a call whose key is not cached goes on to the creation
C27_RaiseLeavesCache ==
    [][/\ CallEnds =>
              /\ OtherBackendAfterDefault(stt_frame.backend_arg) => stt_pc' = "raised"
              /\ stt_pc' = "raised" =>
                     /\ transcriber_cache' = transcriber_cache
                     /\ stt_frame.cache_key \notin DOMAIN transcriber_cache'
                     /\ stt_log'[Len(stt_log')].raised
       /\ \A key \in DOMAIN transcriber_cache' : transcriber_cache'[key].id \in 1..constructed'
       /\ stt_pc = "lookup" /\ stt_frame.cache_key \notin DOMAIN transcriber_cache =>
              stt_pc' = "construct"]_vars

\* a call for a model that did not load raised, the next call with the same arguments built the
\* instance, and a call with an unknown backend raised and left the cache alone
C27_Witness ==
    /\ Len(stt_log) = 3
    /\ stt_log[1] = [backend |-> StrArg("vosk"), model |-> StrArg("auto"), raised |-> TRUE,
                     transcriber |-> NoTranscriber]
    /\ stt_log[2] = [backend |-> StrArg("vosk"), model |-> StrArg("auto"), raised |-> FALSE,
                     transcriber |-> [id |-> 1, backend_name |-> "vosk", hint |-> "auto"]]
    /\ stt_log[3] = [backend |-> StrArg("nonexistent"), model |-> StrArg("auto"), raised |-> TRUE,
                     transcriber |-> NoTranscriber]
    /\ DOMAIN transcriber_cache = {"vosk:auto"}

(* ---------------------------------------------------------------------- *)
(* The squares of the board, spoken                                        *)
(* ---------------------------------------------------------------------- *)

RankWords == <<"one", "two", "three", "four", "five", "six", "seven", "eight">>

\* every square with the text that speaks it: the bare file letter and the rank's number word
BoardSquares ==
    {[text |-> Ch(FILES, f) \o " " \o RankWords[r + 1], square |-> Ch(FILES, f) \o Ch(RANKS, r)] :
        f \in 0..(Len(FILES) - 1), r \in 0..(Len(RANKS) - 1)}

InitBoard == OneCall({StrArg(b.text) : b \in BoardSquares} \cup {StrArg(t) : t \in ExampleTexts})

SpecBoard == InitBoard /\ [][Next]_vars

\* C28: for every file spoken as its bare letter and every rank spoken as its number word the
\* candidates hold the square
C28_EverySquareSpoken ==
    \A c \in Callers : \A b \in BoardSquares :
        Done(c) /\ raw_text[c] = StrArg(b.text) => InList(b.square, Res(c).candidates)

(* ---------------------------------------------------------------------- *)
(* Promotion: what the rule discards and what it emits                     *)
(* ---------------------------------------------------------------------- *)

\* C29: the promotion rule takes the cue, filler words and the piece word it binds to and
\* nothing else: the tokens its cursor jumps over, between the cue and the piece word, are
\* filler words, so every other token is still mapped
C29_PromotionDropsOnlyFillers ==
    [][\A c \in Callers :
          pc[c] = "promo_scan" /\ pc'[c] = "map" =>
              \A p \in (i[c] + 1)..(i'[c] - 2) : Item(tokens[c], p) \in FILLER_WORDS]_vars

\* C30: every promotion token in the Token Mapper's output is the bare "=" or "=" followed by
\* one of Q, R, B, N
C30_PromotionPieceIsLegal ==
    \A c \in Callers : \A k \in 1..Len(mapped[c]) :
        startswith(mapped[c][k], "=") => mapped[c][k] \in {"=", "=Q", "=R", "=B", "=N"}

====
